---------------------------- MODULE Spec2Model ----------------------------
(***************************************************************************)
(* Model of src/lib/codeplug.cc: the accessors of CodePlug::Element over   *)
(* a byte buffer and the cross-reference Context (CodePlug::Context), and   *)
(* of the two-phase decode and the encode protocol that the GD-77 layout of *)
(* src/lib/gd77_codeplug.hh declares on top of the Context.                *)
(***************************************************************************)
EXTENDS Integers, Sequences, FiniteSets, TLC

VARIABLES
  tables,    \* CodePlug::Context::_tables : className -> Table
  lastOp,    \* the last Context call made by the caller, with what it returned
  image,     \* the binary codeplug of a decode or encode session
  phase,     \* state of the session
  chanNext,  \* next channel (slot) the running phase looks at
  scanNext,  \* next scan list (slot) the running phase looks at
  linked,    \* entities whose link step has run
  refs,      \* reference fields of the decoded entities
  config,    \* the configuration an encode session is given
  data,      \* CodePlug::Element::_data : the bytes an Element views
  host,      \* byte order of the machine the build runs on
  acc,       \* the last Element setter called on data, with its arguments
  hid,       \* HIDevice: _dev, _nbytes_received and _receive_buf
  frame,     \* the running call of HIDevice::hid_send_recv: its position and locals
  list,      \* the list a GenericListWrapper or GenericTableWrapper has as _list
  wcall      \* the last call made on the wrapper, with what it did

vars == <<tables, lastOp, image, phase, chanNext, scanNext, linked, refs,
          config, data, host, acc, hid, frame, list, wcall>>

ctxVars == <<tables, lastOp>>
decVars == <<image, phase, chanNext, scanNext, linked, refs>>
encVars == <<config>>
elemVars == <<data, host, acc>>
hidVars == <<hid, frame>>
wrapVars == <<list, wcall>>

-----------------------------------------------------------------------------
(* Bounds of the model *)

\* ordinary (small) slot indices offered to the Context are 0..MaxIdx
MaxIdx == 1

-----------------------------------------------------------------------------
(* 32 bit unsigned and signed integers.  A uint is kept as its two 16 bit  *)
(* halves, so that every value of the type, 0 .. 2^32-1, can be written.   *)

Half == 65536
HalfSign == 32768

U(h, l) == [hi |-> h, lo |-> l]

\* uint -> int, as done by the "int" return type of Context::index
toInt(u) == IF u.hi >= HalfSign THEN (u.hi - Half) * Half + u.lo
            ELSE u.hi * Half + u.lo

\* a (small) int -> uint, as done when an int is passed for a uint parameter
toUInt(n) == IF n < 0 THEN U(Half - 1, Half + n) ELSE U(0, n)

\* the int n has the same numerical value as the uint u
SameValue(n, u) == n >= 0 /\ n \div Half = u.hi /\ n % Half = u.lo

UIntMax == U(Half - 1, Half - 1)

\* the unsigned indices the callers of the model pass: the small ones and the
\* largest one
Indices == {toUInt(n) : n \in 0..MaxIdx} \cup {UIntMax}

-----------------------------------------------------------------------------
(* The meta-object hierarchy of the configuration objects.                 *)

NoType == "nullptr"       \* QMetaObject::superClass() of a root class
\* the null ConfigObject pointer
Null == [type |-> NoType, id |-> 0]

superClass ==
  [ QObject |-> NoType,
    ConfigObject |-> "QObject",
    RadioID |-> "ConfigObject",
    Contact |-> "ConfigObject",
    DigitalContact |-> "Contact",
    DTMFContact |-> "Contact",
    RXGroupList |-> "ConfigObject",
    Channel |-> "ConfigObject",
    AnalogChannel |-> "Channel",
    DigitalChannel |-> "Channel",
    Zone |-> "ConfigObject",
    ScanList |-> "ConfigObject",
    PositioningSystem |-> "ConfigObject",
    GPSSystem |-> "PositioningSystem",
    APRSSystem |-> "PositioningSystem",
    RoamingZone |-> "ConfigObject" ]

ClassNames == DOMAIN superClass

RECURSIVE Ancestors(_)
\* ty and all its super classes
Ancestors(ty) == IF ty = NoType THEN {} ELSE {ty} \cup Ancestors(superClass[ty])

\* a ConfigObject: its dynamic type and what tells it from the other objects
\* of that type
Object(ty, id) == [type |-> ty, id |-> id]

\* obj->metaObject()
metaObject(o) == o.type

a1 == Object("AnalogChannel", 0)
d1 == Object("DigitalChannel", 0)
c1 == Object("DigitalContact", 0)
t1 == Object("DTMFContact", 0)
x1 == Object("Contact", 0)

\* the configuration objects handed to the Context by its caller
Objects == {a1, d1, c1, t1, x1}

-----------------------------------------------------------------------------
(* QHash *)

EmptyHash == <<>>

\* QHash::insert(key, value): replaces the value of a key that is present
HashInsert(h, k, v) == (k :> v) @@ h

\* QHash::value(key, default)
HashValue(h, k, d) == IF k \in DOMAIN h THEN h[k] ELSE d

\* QHash::contains(key)
HashContains(h, k) == k \in DOMAIN h

\* CodePlug::Context::Table()
Table == [objects |-> EmptyHash, indices |-> EmptyHash]

-----------------------------------------------------------------------------
(* CodePlug::Context.  Every operation takes the table map it is called on *)
(* and returns the table map it leaves, with its return value.             *)

NotReached == "-"          \* getTable was not called
NullDeref == "nullptr->"   \* getTable ran past the root of the hierarchy

RECURSIVE hasTable(_, _)
hasTable(tbls, ty) ==
  IF HashContains(tbls, ty) THEN TRUE
  ELSE IF superClass[ty] # NoType THEN hasTable(tbls, superClass[ty])
  ELSE FALSE

\* _tables[className]: QHash::operator[] of a non-const hash inserts a
\* default-constructed Table for a key that is missing
HashRef(tbls, ty) ==
  [tables |-> IF HashContains(tbls, ty) THEN tbls ELSE HashInsert(tbls, ty, Table),
   ref |-> ty]

RECURSIVE getTable_SuperFirst(_, _)
\* getTable that tries the super class before the class itself
getTable_SuperFirst(tbls, ty) ==
  IF ty = NoType THEN [tables |-> tbls, ref |-> NullDeref]
  ELSE IF superClass[ty] # NoType /\ hasTable(tbls, superClass[ty])
  THEN getTable_SuperFirst(tbls, superClass[ty])
  ELSE HashRef(tbls, ty)

RECURSIVE getTable(_, _)
\* the reference returned is the key of the table in _tables
getTable(tbls, ty) ==
  IF ty = NoType THEN [tables |-> tbls, ref |-> NullDeref]
  ELSE IF HashContains(tbls, ty) THEN HashRef(tbls, ty)
  ELSE getTable(tbls, superClass[ty])

\* the Table behind a reference returned by getTable
Deref(tbls, ref) == IF ref = NullDeref THEN Table ELSE tbls[ref]

\* addTable that looks for a table of the class itself only
addTable_OwnClassOnly(tbls, ty) ==
  IF HashContains(tbls, ty) THEN [tables |-> tbls, ok |-> FALSE]
  ELSE [tables |-> HashInsert(tbls, ty, Table), ok |-> TRUE]

\* addTable that lets the new table take the place of the tables of the
\* classes below ty
addTable_ReplaceDescendants(tbls, ty) ==
  IF hasTable(tbls, ty) THEN [tables |-> tbls, ok |-> FALSE]
  ELSE [tables |->
          [t \in {u \in DOMAIN tbls : ty \notin Ancestors(u)} \cup {ty} |->
             IF t = ty THEN Table ELSE tbls[t]],
        ok |-> TRUE]

addTable(tbls, ty) ==
  IF hasTable(tbls, ty) THEN [tables |-> tbls, ok |-> FALSE]
  ELSE [tables |-> HashInsert(tbls, ty, Table), ok |-> TRUE]

\* obj without the hasTable test
obj_NoHasTable(tbls, elementType, idx) ==
  LET g == getTable(tbls, elementType)
  IN [tables |-> g.tables,
      res |-> HashValue(Deref(g.tables, g.ref).objects, idx, Null),
      tbl |-> g.ref]

\* obj that returns an object only if it is of the type asked for
obj_TypeFiltered(tbls, elementType, idx) ==
  IF ~hasTable(tbls, elementType)
  THEN [tables |-> tbls, res |-> Null, tbl |-> NotReached]
  ELSE LET g == getTable(tbls, elementType)
           o == HashValue(Deref(g.tables, g.ref).objects, idx, Null)
       IN [tables |-> g.tables,
           res |-> IF elementType \in Ancestors(metaObject(o)) THEN o ELSE Null,
           tbl |-> g.ref]

obj(tbls, elementType, idx) ==
  IF ~hasTable(tbls, elementType)
  THEN [tables |-> tbls, res |-> Null, tbl |-> NotReached]
  ELSE LET g == getTable(tbls, elementType)
       IN [tables |-> g.tables,
           res |-> HashValue(Deref(g.tables, g.ref).objects, idx, Null),
           tbl |-> g.ref]

\* index with the default-constructed value for an object that has no index
index_DefaultZero(tbls, o) ==
  IF ~hasTable(tbls, metaObject(o))
  THEN [tables |-> tbls, val |-> -1, tbl |-> NotReached]
  ELSE LET g == getTable(tbls, metaObject(o))
       IN [tables |-> g.tables,
           val |-> toInt(HashValue(Deref(g.tables, g.ref).indices, o, toUInt(0))),
           tbl |-> g.ref]

index(tbls, o) ==
  IF ~hasTable(tbls, metaObject(o))
  THEN [tables |-> tbls, val |-> -1, tbl |-> NotReached]
  ELSE LET g == getTable(tbls, metaObject(o))
       IN [tables |-> g.tables,
           val |-> toInt(HashValue(Deref(g.tables, g.ref).indices, o, toUInt(-1))),
           tbl |-> g.ref]

\* add without the test that the object is registered already
add_NoIdentityCheck(tbls, o, idx) ==
  IF ~hasTable(tbls, metaObject(o))
  THEN [tables |-> tbls, ok |-> FALSE, tbl |-> NotReached]
  ELSE LET g == getTable(tbls, metaObject(o))
           t == Deref(g.tables, g.ref)
       IN IF HashContains(t.objects, idx)
          THEN [tables |-> g.tables, ok |-> FALSE, tbl |-> g.ref]
          ELSE [tables |-> [g.tables EXCEPT ![g.ref] =
                              [objects |-> HashInsert(@.objects, idx, o),
                               indices |-> HashInsert(@.indices, o, idx)]],
                ok |-> TRUE, tbl |-> g.ref]

\* add without the test that the index is taken already
add_NoIndexCheck(tbls, o, idx) ==
  IF ~hasTable(tbls, metaObject(o))
  THEN [tables |-> tbls, ok |-> FALSE, tbl |-> NotReached]
  ELSE LET g == getTable(tbls, metaObject(o))
           t == Deref(g.tables, g.ref)
       IN IF HashContains(t.indices, o)
          THEN [tables |-> g.tables, ok |-> FALSE, tbl |-> g.ref]
          ELSE [tables |-> [g.tables EXCEPT ![g.ref] =
                              [objects |-> HashInsert(@.objects, idx, o),
                               indices |-> HashInsert(@.indices, o, idx)]],
                ok |-> TRUE, tbl |-> g.ref]

add(tbls, o, idx) ==
  IF ~hasTable(tbls, metaObject(o))
  THEN [tables |-> tbls, ok |-> FALSE, tbl |-> NotReached]
  ELSE LET g == getTable(tbls, metaObject(o))
           t == Deref(g.tables, g.ref)
       IN IF HashContains(t.indices, o)
          THEN [tables |-> g.tables, ok |-> FALSE, tbl |-> g.ref]
          ELSE IF HashContains(t.objects, idx)
          THEN [tables |-> g.tables, ok |-> FALSE, tbl |-> g.ref]
          ELSE [tables |-> IF g.ref = NullDeref THEN g.tables
                           ELSE [g.tables EXCEPT ![g.ref] =
                                   [objects |-> HashInsert(@.objects, idx, o),
                                    indices |-> HashInsert(@.indices, o, idx)]],
                ok |-> TRUE, tbl |-> g.ref]

\* a constructor that registers each kind of channel on its own
SeededTypes_PerSubtype ==
  << "RadioID", "DigitalContact", "DTMFContact", "RXGroupList", "AnalogChannel",
     "DigitalChannel", "Zone", "ScanList", "GPSSystem", "APRSSystem",
     "RoamingZone" >>

\* a constructor that registers the common contact class first
SeededTypes_ContactFirst ==
  << "RadioID", "Contact", "DigitalContact", "DTMFContact", "RXGroupList",
     "Channel", "Zone", "ScanList", "GPSSystem", "APRSSystem", "RoamingZone" >>

\* a constructor that gives the contacts and the positioning systems one
\* table each, as it does for the channels
SeededTypes_CommonBase ==
  << "RadioID", "Contact", "RXGroupList", "Channel", "Zone", "ScanList",
     "PositioningSystem", "RoamingZone" >>

\* the tables the constructor registers, in its order
SeededTypes ==
  << "RadioID", "DigitalContact", "DTMFContact", "RXGroupList", "Channel",
     "Zone", "ScanList", "GPSSystem", "APRSSystem", "RoamingZone" >>

RECURSIVE ContextFrom(_, _, _)
\* the constructor's addTable calls from the k-th on; oks collects what they return
ContextFrom(tbls, oks, k) ==
  IF k > Len(SeededTypes) THEN [tables |-> tbls, oks |-> oks]
  ELSE LET r == addTable(tbls, SeededTypes[k])
       IN ContextFrom(r.tables, Append(oks, r.ok), k + 1)

\* CodePlug::Context::Context()
Context == ContextFrom(EmptyHash, <<>>, 1)

-----------------------------------------------------------------------------
(* The calls of a caller of the Context.  lastOp keeps which call was made *)
(* last and whether it succeeded (returned true, a non-null object or a    *)
(* non-negative index).                                                    *)

\* the types the caller names in addTable, obj and hasTable
TypeArgs ==
  { "ConfigObject", "Contact", "DigitalContact",
    "Channel", "AnalogChannel", "DigitalChannel" }

Op(op, ok) == [op |-> op, ok |-> ok]

AddTableStep(ty) ==
  LET r == addTable(tables, ty)
  IN /\ tables' = r.tables
     /\ lastOp' = Op("addTable", r.ok)

AddStep(o, idx) ==
  LET r == add(tables, o, idx)
  IN /\ tables' = r.tables
     /\ lastOp' = Op("add", r.ok)

ObjStep(ty, idx) ==
  LET r == obj(tables, ty, idx)
  IN /\ tables' = r.tables
     /\ lastOp' = Op("obj", r.res # Null)

IndexStep(o) ==
  LET r == index(tables, o)
  IN /\ tables' = r.tables
     /\ lastOp' = Op("index", r.val >= 0)

HasTableStep(ty) ==
  /\ tables' = tables
  /\ lastOp' = Op("hasTable", hasTable(tables, ty))

-----------------------------------------------------------------------------
(* A caller using a freshly constructed Context; no decode session runs.   *)

NoImage == [chan |-> <<>>, scan |-> <<>>]

\* no configuration is being encoded, no Element is being accessed
NoConfig == [chan |-> <<>>, scan |-> <<>>, before |-> NoImage]
NoCall == [op |-> "none"]

\* no HIDevice has been constructed, no wrapper has been made
NoDevice == [dev |-> "none"]
NoFrame == [pc |-> "none"]
NoWrapper == [list |-> "none"]

Init ==
  /\ tables = Context.tables
  /\ lastOp = Op("Context", TRUE)
  /\ image = NoImage
  /\ phase = "NoSession"
  /\ chanNext = 0
  /\ scanNext = 0
  /\ linked = {}
  /\ refs = EmptyHash
  /\ config = NoConfig
  /\ data = <<>>
  /\ host = "little"
  /\ acc = NoCall
  /\ hid = NoDevice
  /\ frame = NoFrame
  /\ list = NoWrapper
  /\ wcall = NoCall

Next ==
  \/ \E ty \in TypeArgs : AddTableStep(ty) /\ UNCHANGED <<decVars, encVars, elemVars, hidVars, wrapVars>>
  \/ \E o \in Objects, idx \in Indices : AddStep(o, idx) /\ UNCHANGED <<decVars, encVars, elemVars, hidVars, wrapVars>>
  \/ \E ty \in TypeArgs, idx \in Indices : ObjStep(ty, idx) /\ UNCHANGED <<decVars, encVars, elemVars, hidVars, wrapVars>>
  \/ \E o \in Objects : IndexStep(o) /\ UNCHANGED <<decVars, encVars, elemVars, hidVars, wrapVars>>
  \/ \E ty \in TypeArgs : HasTableStep(ty) /\ UNCHANGED <<decVars, encVars, elemVars, hidVars, wrapVars>>

Spec == Init /\ [][Next]_vars

-----------------------------------------------------------------------------
(* Properties of the Context.  The notions below are stated on the table   *)
(* map itself, without the operations they are compared with.              *)

\* every class with its ancestors, itself included
AncestorsOf == [ty \in ClassNames |-> Ancestors(ty)]

\* the registered types among ty and its ancestors
RegisteredAncestors(tbls, ty) == AncestorsOf[ty] \cap DOMAIN tbls

\* the nearest of them, walking from ty upward
Nearest(tbls, ty) ==
  CHOOSE t \in RegisteredAncestors(tbls, ty) :
    \A u \in RegisteredAncestors(tbls, ty) : u \in AncestorsOf[t]

Resolves(tbls, ty) == RegisteredAncestors(tbls, ty) # {}

SlotTable(tbls, ty) == tbls[Nearest(tbls, ty)]

\* o is registered in the table of its dynamic type
Registered(tbls, o) ==
  /\ Resolves(tbls, metaObject(o))
  /\ o \in DOMAIN SlotTable(tbls, metaObject(o)).indices

\* idx holds an object in the table ty resolves to
Occupied(tbls, ty, idx) ==
  /\ Resolves(tbls, ty)
  /\ idx \in DOMAIN SlotTable(tbls, ty).objects

RegisteredAt(tbls, o, idx) ==
  /\ Occupied(tbls, metaObject(o), idx)
  /\ SlotTable(tbls, metaObject(o)).objects[idx] = o

\* C1: in every table the index->object map and the object->index map are
\* mutual inverses: objects[i] = e exactly when indices[e] = i.
C1_MutualInverse ==
  \A t \in DOMAIN tables :
    /\ \A i \in DOMAIN tables[t].objects :
         /\ tables[t].objects[i] \in DOMAIN tables[t].indices
         /\ tables[t].indices[tables[t].objects[i]] = i
    /\ \A e \in DOMAIN tables[t].indices :
         /\ tables[t].indices[e] \in DOMAIN tables[t].objects
         /\ tables[t].objects[tables[t].indices[e]] = e

\* two channels share the Channel table and a failing add has just been made
C1_Witness ==
  /\ lastOp = Op("add", FALSE)
  /\ Cardinality(DOMAIN tables["Channel"].objects) = 2
  /\ Cardinality(DOMAIN tables["Channel"].indices) = 2

\* C2: add(o, idx) returns false and leaves all tables as they are when the
\* type of o resolves to no table, when o is already registered in its table
\* or when idx is occupied in it; in every other case it returns true.
C2_AddFailsExactly ==
  \A o \in Objects, idx \in Indices :
    LET r == add(tables, o, idx)
    IN IF \/ ~Resolves(tables, metaObject(o))
          \/ Registered(tables, o)
          \/ Occupied(tables, metaObject(o), idx)
       THEN ~r.ok /\ r.tables = tables
       ELSE r.ok

\* all three reasons to fail are present, and an add has just failed
C2_Witness ==
  /\ lastOp = Op("add", FALSE)
  /\ ~Resolves(tables, metaObject(x1))
  /\ Registered(tables, a1)
  /\ ~Registered(tables, d1)
  /\ \E idx \in Indices : Occupied(tables, "DigitalChannel", idx)

\* C3 (as claimed): whenever add(o, idx) returns true, then right after it
\* obj(T, idx) = o for every type T resolving to the table of o, and
\* index(o) = idx.
C3_AddThenLookup ==
  [][\A o \in Objects, idx \in Indices :
       (/\ lastOp' = Op("add", TRUE)
        /\ add(tables, o, idx).ok
        /\ tables' = add(tables, o, idx).tables)
       => /\ \A ty \in ClassNames :
               (Resolves(tables', ty)
                  /\ Nearest(tables', ty) = Nearest(tables', metaObject(o)))
               => obj(tables', ty, idx).res = o
          /\ SameValue(index(tables', o).val, idx)]_vars

\* C4: addTable(ty) returns true and registers an empty table for ty exactly
\* when neither ty nor an ancestor of ty has a table; otherwise it returns
\* false and the tables are unchanged.
C4_AddTableIff ==
  \A ty \in ClassNames :
    LET r == addTable(tables, ty)
    IN IF Resolves(tables, ty)
       THEN ~r.ok /\ r.tables = tables
       ELSE /\ r.ok
            /\ DOMAIN r.tables = DOMAIN tables \cup {ty}
            /\ r.tables[ty] = Table
            /\ \A t \in DOMAIN tables : r.tables[t] = tables[t]

\* a table was just added below which a descendant already has its own
C4_Witness ==
  /\ lastOp = Op("addTable", TRUE)
  /\ "Contact" \in DOMAIN tables
  /\ ~Resolves(tables, "ConfigObject")

\* C5: hasTable(ty) holds exactly when ty or an ancestor of ty has a table,
\* and getTable(ty) then returns the table of the nearest such type.
C5_NearestAncestor ==
  \A ty \in ClassNames :
    /\ hasTable(tables, ty) <=> Resolves(tables, ty)
    /\ Resolves(tables, ty) =>
         /\ getTable(tables, ty).ref = Nearest(tables, ty)
         /\ getTable(tables, ty).tables = tables

\* DigitalContact has three registered types on its way up, AnalogChannel two
C5_Witness ==
  /\ lastOp = Op("hasTable", TRUE)
  /\ {"ConfigObject", "Contact", "DigitalContact"} \subseteq DOMAIN tables
  /\ Nearest(tables, "AnalogChannel") = "Channel"

Channels == {o \in Objects : "Channel" \in AncestorsOf[metaObject(o)]}

\* C6: analog and digital channels are registered in the one Channel table:
\* where an analog channel holds an index, add of a digital channel at that
\* index fails; two registered channels never have the same index; and every
\* registered channel is what obj(Channel, .) returns at its index.
C6_ChannelsShareTable ==
  /\ \A a \in Channels, d \in Channels, idx \in Indices :
       (/\ metaObject(a) = "AnalogChannel"
        /\ metaObject(d) = "DigitalChannel"
        /\ RegisteredAt(tables, a, idx))
       => ~add(tables, d, idx).ok
  /\ \A o1 \in Channels, o2 \in Channels :
       (o1 # o2 /\ Registered(tables, o1) /\ Registered(tables, o2))
       => SlotTable(tables, metaObject(o1)).indices[o1]
            # SlotTable(tables, metaObject(o2)).indices[o2]
  /\ \A o \in Channels :
       Registered(tables, o)
       => obj(tables, "Channel",
              SlotTable(tables, metaObject(o)).indices[o]).res = o

\* an analog and a digital channel are registered, and an add has just failed
C6_Witness ==
  /\ lastOp = Op("add", FALSE)
  /\ Registered(tables, a1)
  /\ Registered(tables, d1)

\* C7 (as claimed): index(o) is negative exactly when o is not registered or
\* its type has no table; for a registered o it is the index o was added at.
C7_IndexSentinel ==
  \A o \in Objects :
    /\ (index(tables, o).val < 0) <=> ~Registered(tables, o)
    /\ Registered(tables, o) =>
         SameValue(index(tables, o).val,
                   SlotTable(tables, metaObject(o)).indices[o])

\* C8: obj(ty, idx) returns null and changes no table when ty resolves to no
\* table or idx is unoccupied in the table it resolves to; obj, index and add
\* on a type that resolves to no table never call getTable.
C8_AbsentLookup ==
  /\ \A ty \in ClassNames, idx \in Indices :
       LET r == obj(tables, ty, idx)
       IN /\ r.tables = tables
          /\ ~Resolves(tables, ty) => (r.res = Null /\ r.tbl = NotReached)
          /\ (Resolves(tables, ty) /\ ~Occupied(tables, ty, idx)) => r.res = Null
          /\ Occupied(tables, ty, idx) => r.res = SlotTable(tables, ty).objects[idx]
  /\ \A o \in Objects, idx \in Indices :
       ~Resolves(tables, metaObject(o))
       => /\ index(tables, o).tbl = NotReached
          /\ add(tables, o, idx).tbl = NotReached

\* a lookup has just returned null, while some type has no table and some
\* table has an occupied and an unoccupied index
C8_Witness ==
  /\ lastOp = Op("obj", FALSE)
  /\ ~Resolves(tables, "Contact")
  /\ \E i \in Indices, j \in Indices :
       Occupied(tables, "Channel", i) /\ ~Occupied(tables, "Channel", j)

\* types that are, or descend from, a type the constructor registers
SeededFamilies ==
  {ty \in ClassNames :
     \E k \in 1..10 :
       << "RadioID", "DigitalContact", "DTMFContact", "RXGroupList", "Channel",
          "Zone", "ScanList", "GPSSystem", "APRSSystem",
          "RoamingZone" >>[k] \in Ancestors(ty)}

\* C9: in a freshly constructed Context every addTable of the constructor
\* has succeeded, each of the ten categories has an empty table, hasTable
\* holds for these types and their subtypes, and obj returns null everywhere.
C9_FreshContext ==
  lastOp.op = "Context" =>
    /\ Len(Context.oks) = 10
    /\ \A k \in 1..Len(Context.oks) : Context.oks[k]
    /\ Cardinality(DOMAIN tables) = 10
    /\ \A t \in DOMAIN tables : tables[t] = Table
    /\ \A ty \in SeededFamilies :
         /\ hasTable(tables, ty)
         /\ \A idx \in Indices : obj(tables, ty, idx).res = Null

\* the Context as constructed, before any call
C9_Witness ==
  /\ lastOp.op = "Context"
  /\ "RoamingZone" \in DOMAIN tables
  /\ "AnalogChannel" \in SeededFamilies

\* C24 (as claimed): a registration stays for the rest of the session: an
\* object registered at idx is registered at idx after every later call of
\* add, addTable, obj, index or hasTable, and as long as it is registered
\* index(o) = idx and obj(type of o, idx) = o; obj, index and hasTable leave
\* every table as it is.
C24_PopulateOnce ==
  /\ [][/\ \A o \in Objects, idx \in Indices :
             RegisteredAt(tables, o, idx) => RegisteredAt(tables', o, idx)
        /\ lastOp'.op \in {"obj", "index", "hasTable"} => tables' = tables]_vars
  /\ [](\A o \in Objects, idx \in Indices :
          RegisteredAt(tables, o, idx) =>
            /\ obj(tables, metaObject(o), idx).res = o
            /\ SameValue(index(tables, o).val, idx))

\* C26: obj does not look at the type it is asked for beyond finding the
\* table: at every index it returns for a type what it returns for the type
\* that owns the table, so any two types that resolve to one table get the
\* same object at every index, be it of a different subtype than the one
\* asked for.
C26_NoTypeFilter ==
  \A ty \in ClassNames :
    Resolves(tables, ty) =>
      \A idx \in Indices :
        obj(tables, ty, idx).res = obj(tables, Nearest(tables, ty), idx).res

\* obj has just returned an object, and asked for a digital channel it
\* returns the analog channel at some index
C26_Witness ==
  /\ lastOp = Op("obj", TRUE)
  /\ \E idx \in Indices :
       /\ obj(tables, "DigitalChannel", idx).res = a1
       /\ obj(tables, "Channel", idx).res = a1
       /\ "DigitalChannel" \notin AncestorsOf[metaObject(a1)]

-----------------------------------------------------------------------------
(* A caller that registers contacts and positioning systems: the classes   *)
(* whose common base class the constructor gives no table.                 *)

g1 == Object("GPSSystem", 0)
p1 == Object("APRSSystem", 0)

\* the configuration objects this caller hands to the Context
FamilyObjects == {c1, t1, x1, g1, p1}

\* the types it names in addTable, obj and hasTable
FamilyTypes ==
  { "Contact", "DigitalContact", "DTMFContact",
    "PositioningSystem", "GPSSystem", "APRSSystem" }

FamiliesNext ==
  \/ \E ty \in FamilyTypes : AddTableStep(ty) /\ UNCHANGED <<decVars, encVars, elemVars, hidVars, wrapVars>>
  \/ \E o \in FamilyObjects, idx \in Indices : AddStep(o, idx) /\ UNCHANGED <<decVars, encVars, elemVars, hidVars, wrapVars>>
  \/ \E ty \in FamilyTypes, idx \in Indices : ObjStep(ty, idx) /\ UNCHANGED <<decVars, encVars, elemVars, hidVars, wrapVars>>
  \/ \E o \in FamilyObjects : IndexStep(o) /\ UNCHANGED <<decVars, encVars, elemVars, hidVars, wrapVars>>
  \/ \E ty \in FamilyTypes : HasTableStep(ty) /\ UNCHANGED <<decVars, encVars, elemVars, hidVars, wrapVars>>

FamiliesSpec == Init /\ [][FamiliesNext]_vars

\* registering e1 at idx, where e2 is not registered, does not keep e2 from
\* idx: both are then found at idx, each under its own type
SeparateTables(e1, e2, idx) ==
  LET r1 == IF RegisteredAt(tables, e1, idx)
            THEN [tables |-> tables, ok |-> TRUE]
            ELSE add(tables, e1, idx)
      r2 == add(r1.tables, e2, idx)
  IN /\ Nearest(tables, metaObject(e1)) # Nearest(tables, metaObject(e2))
     /\ (r1.ok /\ ~Registered(tables, e2)) =>
          /\ r2.ok
          /\ obj(r2.tables, metaObject(e1), idx).res = e1
          /\ obj(r2.tables, metaObject(e2), idx).res = e2
          /\ index(r2.tables, e1).val = index(r2.tables, e2).val

\* C25: a DTMF contact and a digital contact do not share an index space,
\* nor do a GPS and an APRS system: with the one registered at an index,
\* add of the other at the same index succeeds, and obj returns each of
\* the two under its own type at that index.
C25_SeparateTables ==
  \A idx \in Indices :
    /\ SeparateTables(t1, c1, idx)
    /\ SeparateTables(c1, t1, idx)
    /\ SeparateTables(g1, p1, idx)
    /\ SeparateTables(p1, g1, idx)
    /\ (RegisteredAt(tables, t1, idx) /\ RegisteredAt(tables, c1, idx)) =>
         /\ obj(tables, "DTMFContact", idx).res = t1
         /\ obj(tables, "DigitalContact", idx).res = c1
    /\ (RegisteredAt(tables, g1, idx) /\ RegisteredAt(tables, p1, idx)) =>
         /\ obj(tables, "GPSSystem", idx).res = g1
         /\ obj(tables, "APRSSystem", idx).res = p1

\* an add has just succeeded, and the two contacts are registered at one
\* index, as are the two positioning systems
C25_Witness ==
  /\ lastOp = Op("add", TRUE)
  /\ \E idx \in Indices :
       /\ RegisteredAt(tables, t1, idx)
       /\ RegisteredAt(tables, c1, idx)
       /\ obj(tables, "DTMFContact", idx).res # obj(tables, "DigitalContact", idx).res
  /\ \E idx \in Indices :
       /\ RegisteredAt(tables, g1, idx)
       /\ RegisteredAt(tables, p1, idx)

\* C27: addTable(ty) for a type that resolves to no table succeeds, whether
\* or not a type below ty has a table; every table that was there is there
\* afterwards with the same content; a type that resolved to a table
\* resolves to the same table, and a registered object keeps its table and
\* its index; the types that resolve to the new table are ty and those
\* types below ty that resolved to no table before.
C27_AddTableAboveDescendant ==
  \A ty \in ClassNames :
    ~Resolves(tables, ty) =>
      LET r == addTable(tables, ty)
      IN /\ r.ok
         /\ DOMAIN r.tables = DOMAIN tables \cup {ty}
         /\ \A d \in ClassNames :
              /\ Resolves(tables, d) =>
                   /\ getTable(r.tables, d).ref = getTable(tables, d).ref
                   /\ Deref(r.tables, getTable(r.tables, d).ref)
                        = Deref(tables, getTable(tables, d).ref)
              /\ (hasTable(r.tables, d) /\ getTable(r.tables, d).ref = ty)
                   <=> (ty \in AncestorsOf[d] /\ ~Resolves(tables, d))
         /\ \A o \in FamilyObjects :
              Registered(tables, o) =>
                /\ Registered(r.tables, o)
                /\ index(r.tables, o).val = index(tables, o).val
                /\ index(r.tables, o).tbl = index(tables, o).tbl

\* a table for Contact has just been added: the digital contact, registered
\* before, is in the table of its own class, and the new table is empty
C27_Witness ==
  /\ lastOp = Op("addTable", TRUE)
  /\ "Contact" \in DOMAIN tables
  /\ "ConfigObject" \notin DOMAIN tables
  /\ tables["Contact"] = Table
  /\ Registered(tables, c1)
  /\ Nearest(tables, "DigitalContact") = "DigitalContact"
  /\ Nearest(tables, "Contact") = "Contact"

-----------------------------------------------------------------------------
(* A decode session over the GD-77 layout: channel slots with their bank   *)
(* bitmap and scan-list slots with their valid bytes.  Phase 1 instantiates *)
(* the occupied slots and registers them in a fresh Context, phase 2 links  *)
(* the reference fields through the Context.                               *)

\* slots per category in the model (the radio has NCHAN and NSCANL of them)
NChanSlots == 2
NScanSlots == 1

MODE_ANALOG == 0
MODE_DIGITAL == 1

\* channel_t of an occupied slot: channel_mode and scan_list_index
\* (0=None or index + 1); a cleared slot holds zeros
ChannelSlots ==
  {[valid |-> FALSE, channel_mode |-> MODE_ANALOG, scan_list_index |-> 0]}
  \cup [valid : {TRUE}, channel_mode : {MODE_ANALOG, MODE_DIGITAL},
        scan_list_index : 0..(NScanSlots + 1)]

\* scanlist_t of an occupied slot: priority_ch1 (index+2 or 0=None,
\* 1=selected); a cleared slot holds zeros
ScanListSlots ==
  {[valid |-> FALSE, priority_ch1 |-> 0]}
  \cup [valid : {TRUE}, priority_ch1 : 0..(NChanSlots + 2)]

\* the codeplug images a session may be given; slot i is element i+1
Images ==
  [chan : [1..NChanSlots -> ChannelSlots], scan : [1..NScanSlots -> ScanListSlots]]

\* SelectedChannel::get(): the singleton that stands for the selected channel
SelectedChannel == Object("SelectedChannel", 0)

\* channel_t::toChannelObj(): an analog or a digital channel
toChannelObj(slot) ==
  IF image.chan[slot + 1].channel_mode = MODE_ANALOG
  THEN Object("AnalogChannel", slot)
  ELSE Object("DigitalChannel", slot)

\* scanlist_t::toScanListObj()
toScanListObj(slot) == Object("ScanList", slot)

\* phase 1 that makes an object of every channel slot, whatever the bitmap says
InstantiateChannel_IgnoreBitmap ==
  /\ phase = "Empty"
  /\ chanNext < NChanSlots
  /\ chanNext' = chanNext + 1
  /\ LET r == add(tables, toChannelObj(chanNext), toUInt(chanNext))
     IN /\ tables' = r.tables
        /\ lastOp' = Op("add", r.ok)
        /\ phase' = IF r.ok THEN phase ELSE "Failed"
  /\ UNCHANGED <<image, scanNext, linked, refs, encVars, elemVars, hidVars, wrapVars>>

\* phase 1, next channel slot: an occupied slot gives an object registered
\* at the index of the slot, an unoccupied one is skipped
InstantiateChannel ==
  /\ phase = "Empty"
  /\ chanNext < NChanSlots
  /\ chanNext' = chanNext + 1
  /\ IF image.chan[chanNext + 1].valid
     THEN LET r == add(tables, toChannelObj(chanNext), toUInt(chanNext))
          IN /\ tables' = r.tables
             /\ lastOp' = Op("add", r.ok)
             /\ phase' = IF r.ok THEN phase ELSE "Failed"
     ELSE UNCHANGED <<tables, lastOp, phase>>
  /\ UNCHANGED <<image, scanNext, linked, refs, encVars, elemVars, hidVars, wrapVars>>

\* phase 1, next scan-list slot
InstantiateScanList ==
  /\ phase = "Empty"
  /\ scanNext < NScanSlots
  /\ scanNext' = scanNext + 1
  /\ IF image.scan[scanNext + 1].valid
     THEN LET r == add(tables, toScanListObj(scanNext), toUInt(scanNext))
          IN /\ tables' = r.tables
             /\ lastOp' = Op("add", r.ok)
             /\ phase' = IF r.ok THEN phase ELSE "Failed"
     ELSE UNCHANGED <<tables, lastOp, phase>>
  /\ UNCHANGED <<image, chanNext, linked, refs, encVars, elemVars, hidVars, wrapVars>>

\* a session that starts linking once the channel slots have been looked at
Populate_ChannelsOnly ==
  /\ phase = "Empty"
  /\ chanNext = NChanSlots
  /\ phase' = "Populated"
  /\ UNCHANGED <<tables, lastOp, image, chanNext, scanNext, linked, refs, encVars, elemVars, hidVars, wrapVars>>

\* every slot of every category has been looked at: the Context is built
Populate ==
  /\ phase = "Empty"
  /\ chanNext = NChanSlots
  /\ scanNext = NScanSlots
  /\ phase' = "Populated"
  /\ UNCHANGED <<tables, lastOp, image, chanNext, scanNext, linked, refs, encVars, elemVars, hidVars, wrapVars>>

\* the objects phase 1 has made
Decoded ==
  {toChannelObj(i) : i \in {j \in 0..(NChanSlots - 1) : image.chan[j + 1].valid}}
  \cup {toScanListObj(i) : i \in {j \in 0..(NScanSlots - 1) : image.scan[j + 1].valid}}

\* the order in which phase 2 visits them: channels, then scan lists, by slot
LinkRank(o) == IF metaObject(o) = "ScanList" THEN NChanSlots + o.id ELSE o.id

\* a layout in which the scan list stores its channel as index + 1 as well
StoredRef_SameOffset(o) ==
  IF metaObject(o) = "ScanList"
  THEN [value |-> image.scan[o.id + 1].priority_ch1, none |-> 0, selected |-> 1,
        offset |-> 1, target |-> "Channel"]
  ELSE [value |-> image.chan[o.id + 1].scan_list_index, none |-> 0, selected |-> -1,
        offset |-> 1, target |-> "ScanList"]

\* the reference field of an object as stored: value, sentinels (values that
\* name no object of the Context), offset and the type referred to
StoredRef(o) ==
  IF metaObject(o) = "ScanList"
  THEN [value |-> image.scan[o.id + 1].priority_ch1, none |-> 0, selected |-> 1,
        offset |-> 2, target |-> "Channel"]
  ELSE [value |-> image.chan[o.id + 1].scan_list_index, none |-> 0, selected |-> -1,
        offset |-> 1, target |-> "ScanList"]

\* linking that leaves a reference it cannot resolve unset and goes on
LinkStep_SkipAbsent(o) ==
  LET f == StoredRef(o)
  IN IF f.value = f.none
     THEN [ok |-> TRUE, ref |-> Null, tables |-> tables, lastOp |-> lastOp]
     ELSE IF f.value = f.selected
     THEN [ok |-> TRUE, ref |-> SelectedChannel, tables |-> tables, lastOp |-> lastOp]
     ELSE LET r == obj(tables, f.target, toUInt(f.value - f.offset))
          IN [ok |-> TRUE, ref |-> r.res, tables |-> r.tables,
              lastOp |-> Op("obj", r.res # Null)]

\* linkChannelObj / linkScanListObj: resolve the reference field of o
LinkStep(o) ==
  LET f == StoredRef(o)
  IN IF f.value = f.none
     THEN [ok |-> TRUE, ref |-> Null, tables |-> tables, lastOp |-> lastOp]
     ELSE IF f.value = f.selected
     THEN [ok |-> TRUE, ref |-> SelectedChannel, tables |-> tables, lastOp |-> lastOp]
     ELSE LET r == obj(tables, f.target, toUInt(f.value - f.offset))
          IN [ok |-> r.res # Null, ref |-> r.res, tables |-> r.tables,
              lastOp |-> Op("obj", r.res # Null)]

\* linking that goes on into the object a reference resolves to: that
\* object is linked again afterwards
Link_FollowReference ==
  /\ phase = "Populated"
  /\ \E o \in Decoded \ linked :
       /\ \A p \in Decoded \ linked : LinkRank(o) <= LinkRank(p)
       /\ LET r == LinkStep(o)
          IN /\ tables' = r.tables
             /\ lastOp' = r.lastOp
             /\ linked' = (linked \cup {o}) \ {r.ref}
             /\ refs' = IF r.ok THEN HashInsert(refs, o, r.ref) ELSE refs
             /\ phase' = IF r.ok THEN phase ELSE "Failed"
  /\ UNCHANGED <<image, chanNext, scanNext, encVars, elemVars, hidVars, wrapVars>>

\* phase 2, next object: a reference that resolves to nothing fails the session
Link ==
  /\ phase = "Populated"
  /\ \E o \in Decoded \ linked :
       /\ \A p \in Decoded \ linked : LinkRank(o) <= LinkRank(p)
       /\ LET r == LinkStep(o)
          IN /\ tables' = r.tables
             /\ lastOp' = r.lastOp
             /\ linked' = linked \cup {o}
             /\ refs' = IF r.ok THEN HashInsert(refs, o, r.ref) ELSE refs
             /\ phase' = IF r.ok THEN phase ELSE "Failed"
  /\ UNCHANGED <<image, chanNext, scanNext, encVars, elemVars, hidVars, wrapVars>>

\* finishing that does not look at whether the session has failed
Finish_IgnoreFailure ==
  /\ phase \in {"Populated", "Failed"}
  /\ Decoded \subseteq linked
  /\ phase' = "Linked"
  /\ UNCHANGED <<tables, lastOp, image, chanNext, scanNext, linked, refs, encVars, elemVars, hidVars, wrapVars>>

\* every object has been linked
Finish ==
  /\ phase = "Populated"
  /\ Decoded \subseteq linked
  /\ phase' = "Linked"
  /\ UNCHANGED <<tables, lastOp, image, chanNext, scanNext, linked, refs, encVars, elemVars, hidVars, wrapVars>>

DecodeInit ==
  /\ tables = Context.tables
  /\ lastOp = Op("Context", TRUE)
  /\ image \in Images
  /\ phase = "Empty"
  /\ chanNext = 0
  /\ scanNext = 0
  /\ linked = {}
  /\ refs = EmptyHash
  /\ config = NoConfig
  /\ data = <<>>
  /\ host = "little"
  /\ acc = NoCall
  /\ hid = NoDevice
  /\ frame = NoFrame
  /\ list = NoWrapper
  /\ wcall = NoCall

DecodeNext ==
  \/ InstantiateChannel
  \/ InstantiateScanList
  \/ Populate
  \/ Link
  \/ Finish

DecodeSpec == DecodeInit /\ [][DecodeNext]_vars

-----------------------------------------------------------------------------
(* Properties of a decode session *)

\* the stored reference of o names an object of the Context (it is no sentinel)
NamesObject(o) ==
  StoredRef(o).value # StoredRef(o).none /\ StoredRef(o).value # StoredRef(o).selected

\* the slot the stored reference of o names, the offset undone
NamedSlot(o) == StoredRef(o).value - StoredRef(o).offset

\* that slot exists and is occupied in the image
NamedSlotOccupied(o) ==
  IF StoredRef(o).target = "ScanList"
  THEN NamedSlot(o) \in 0..(NScanSlots - 1) /\ image.scan[NamedSlot(o) + 1].valid
  ELSE NamedSlot(o) \in 0..(NChanSlots - 1) /\ image.chan[NamedSlot(o) + 1].valid

\* C10: a decode session never ends in success while an object holds a stored
\* reference that is no sentinel and names a slot that is out of range or
\* unoccupied; on success every such reference is set to an object.
C10_AbsentReferenceFails ==
  phase = "Linked" =>
    \A o \in Decoded :
      NamesObject(o) =>
        /\ NamedSlotOccupied(o)
        /\ o \in DOMAIN refs
        /\ refs[o] # Null

\* a session has failed on a channel that names an unoccupied scan-list slot
C10_Witness ==
  /\ phase = "Failed"
  /\ \E o \in linked :
       /\ metaObject(o) # "ScanList"
       /\ NamesObject(o)
       /\ NamedSlot(o) \in 0..(NScanSlots - 1)
       /\ ~NamedSlotOccupied(o)

\* the object registered at idx in the table that ty resolves to, Null if none
RegisteredObject(ty, idx) ==
  IF Occupied(tables, ty, toUInt(idx))
  THEN SlotTable(tables, ty).objects[toUInt(idx)]
  ELSE Null

\* C11: after a successful decode a channel whose scan_list_index is I + 1
\* refers to exactly the scan list phase 1 registered at slot I, a scan list
\* whose priority_ch1 is I + 2 refers to exactly the channel phase 1
\* registered at slot I, and a field holding the sentinel 0 is unset: it is
\* never resolved to the object of slot 0.
C11_ReferencesResolve ==
  phase = "Linked" =>
    /\ \A c \in 0..(NChanSlots - 1) :
         image.chan[c + 1].valid =>
           LET v == image.chan[c + 1].scan_list_index
           IN /\ toChannelObj(c) \in DOMAIN refs
              /\ v = 0 => refs[toChannelObj(c)] = Null
              /\ v >= 1 => /\ v - 1 \in 0..(NScanSlots - 1)
                           /\ image.scan[v].valid
                           /\ refs[toChannelObj(c)] = toScanListObj(v - 1)
                           /\ refs[toChannelObj(c)] = RegisteredObject("ScanList", v - 1)
    /\ \A l \in 0..(NScanSlots - 1) :
         image.scan[l + 1].valid =>
           LET v == image.scan[l + 1].priority_ch1
           IN /\ toScanListObj(l) \in DOMAIN refs
              /\ v = 0 => refs[toScanListObj(l)] = Null
              /\ v >= 2 => /\ v - 2 \in 0..(NChanSlots - 1)
                           /\ image.chan[v - 1].valid
                           /\ refs[toScanListObj(l)] = toChannelObj(v - 2)
                           /\ refs[toScanListObj(l)] = RegisteredObject("Channel", v - 2)

\* a linked session in which channel 1 names scan list 0, scan list 0 names
\* channel 1, and channel 0 holds the sentinel although slot 0 is occupied
C11_Witness ==
  /\ phase = "Linked"
  /\ image.chan[1].valid /\ image.chan[1].scan_list_index = 0
  /\ image.chan[2].valid /\ image.chan[2].scan_list_index = 1
  /\ image.scan[1].valid /\ image.scan[1].priority_ch1 = 3
  /\ refs[toChannelObj(0)] = Null
  /\ refs[toChannelObj(1)] = toScanListObj(0)
  /\ refs[toScanListObj(0)] = toChannelObj(1)

-----------------------------------------------------------------------------
(* An encode session over the same layout.  The entities of the given      *)
(* configuration are first registered in a fresh Context at their position  *)
(* in their list, then every slot of the image is written: an entity with   *)
(* its reference fields turned into indices through the Context, or a       *)
(* cleared slot.                                                            *)

SeqUpTo(S, n) == UNION {[1..k -> S] : k \in 0..n}

\* channel k of a list of channels: an analog or a digital channel object;
\* a number past the end of the list names a channel that is not in the list
ChannelEntity(chans, k) ==
  IF k < Len(chans) /\ chans[k + 1].mode = MODE_DIGITAL
  THEN Object("DigitalChannel", k)
  ELSE Object("AnalogChannel", k)

ScanListEntity(k) == Object("ScanList", k)

\* a channel of a configuration: its mode and its scan list (or none)
ConfigChannels ==
  [mode : {MODE_ANALOG, MODE_DIGITAL},
   scanlist : {Null} \cup {ScanListEntity(j) : j \in 0..NScanSlots}]

\* the lists of channels a configuration may hold: every list that fits the
\* image, and one that has one channel more than the image has slots
ChannelLists ==
  SeqUpTo(ConfigChannels, NChanSlots)
  \cup {[k \in 1..(NChanSlots + 1) |-> [mode |-> MODE_ANALOG, scanlist |-> Null]]}

\* a scan list of a configuration with these channels: its priority channel
\* (none, the selected channel, or a channel)
ConfigScanLists(chans) ==
  [priority : {Null, SelectedChannel}
              \cup {ChannelEntity(chans, j) : j \in 0..NChanSlots}]

ScanListLists(chans) ==
  SeqUpTo(ConfigScanLists(chans), NScanSlots)
  \cup {[k \in 1..(NScanSlots + 1) |-> [priority |-> Null]]}

\* the content of the image an encode session is to write: a cleared image,
\* or one that still holds an earlier codeplug
ClearedImage ==
  [chan |-> [i \in 1..NChanSlots |->
               [valid |-> FALSE, channel_mode |-> MODE_ANALOG, scan_list_index |-> 0]],
   scan |-> [i \in 1..NScanSlots |-> [valid |-> FALSE, priority_ch1 |-> 0]]]

StaleImage ==
  [chan |-> [i \in 1..NChanSlots |->
               [valid |-> TRUE, channel_mode |-> MODE_DIGITAL, scan_list_index |-> 1]],
   scan |-> [i \in 1..NScanSlots |-> [valid |-> TRUE, priority_ch1 |-> 2]]]

\* registration that drops the channels that do not fit and goes on
RegisterChannel_Truncate ==
  /\ phase = "EncodeEmpty"
  /\ chanNext < Len(config.chan)
  /\ IF chanNext >= NChanSlots
     THEN /\ chanNext' = Len(config.chan)
          /\ UNCHANGED <<tables, lastOp, phase>>
     ELSE LET r == add(tables, ChannelEntity(config.chan, chanNext), toUInt(chanNext))
          IN /\ tables' = r.tables
             /\ lastOp' = Op("add", r.ok)
             /\ chanNext' = chanNext + 1
             /\ phase' = IF r.ok THEN phase ELSE "Failed"
  /\ UNCHANGED <<image, scanNext, linked, refs, encVars, elemVars, hidVars, wrapVars>>

\* phase 1, next channel of the configuration: it is registered at its
\* position in the list; a channel past the last slot fails the session
RegisterChannel ==
  /\ phase = "EncodeEmpty"
  /\ chanNext < Len(config.chan)
  /\ IF chanNext >= NChanSlots
     THEN /\ phase' = "CapacityExceeded"
          /\ UNCHANGED <<tables, lastOp, chanNext>>
     ELSE LET r == add(tables, ChannelEntity(config.chan, chanNext), toUInt(chanNext))
          IN /\ tables' = r.tables
             /\ lastOp' = Op("add", r.ok)
             /\ chanNext' = chanNext + 1
             /\ phase' = IF r.ok THEN phase ELSE "Failed"
  /\ UNCHANGED <<image, scanNext, linked, refs, encVars, elemVars, hidVars, wrapVars>>

\* phase 1, next scan list of the configuration, once the channels are done
RegisterScanList ==
  /\ phase = "EncodeEmpty"
  /\ chanNext = Len(config.chan)
  /\ scanNext < Len(config.scan)
  /\ IF scanNext >= NScanSlots
     THEN /\ phase' = "CapacityExceeded"
          /\ UNCHANGED <<tables, lastOp, scanNext>>
     ELSE LET r == add(tables, ScanListEntity(scanNext), toUInt(scanNext))
          IN /\ tables' = r.tables
             /\ lastOp' = Op("add", r.ok)
             /\ scanNext' = scanNext + 1
             /\ phase' = IF r.ok THEN phase ELSE "Failed"
  /\ UNCHANGED <<image, chanNext, linked, refs, encVars, elemVars, hidVars, wrapVars>>

\* every entity is registered: the Context is built, writing starts at slot 0
EncodePopulate ==
  /\ phase = "EncodeEmpty"
  /\ chanNext = Len(config.chan)
  /\ scanNext = Len(config.scan)
  /\ phase' = "EncodePopulated"
  /\ chanNext' = 0
  /\ scanNext' = 0
  /\ UNCHANGED <<tables, lastOp, image, linked, refs, encVars, elemVars, hidVars, wrapVars>>

\* a reference field as an index: the sentinels for none and for the selected
\* channel, else the index the Context has for the object plus the offset;
\* an object the Context has no index for makes the result not ok
ToStoredIndex(tbls, lop, target, none, selected, offset) ==
  IF target = Null
  THEN [ok |-> TRUE, value |-> none, tables |-> tbls, lastOp |-> lop]
  ELSE IF target = SelectedChannel
  THEN [ok |-> TRUE, value |-> selected, tables |-> tbls, lastOp |-> lop]
  ELSE LET r == index(tbls, target)
       IN [ok |-> r.val >= 0, value |-> r.val + offset, tables |-> r.tables,
           lastOp |-> Op("index", r.val >= 0)]

\* channel_t::fromChannelObj(): the slot for channel k of the configuration
fromChannelObj(k) ==
  LET r == ToStoredIndex(tables, lastOp, config.chan[k + 1].scanlist, 0, -1, 1)
  IN [ok |-> r.ok, tables |-> r.tables, lastOp |-> r.lastOp,
      slot |-> [valid |-> TRUE, channel_mode |-> config.chan[k + 1].mode,
                scan_list_index |-> r.value]]

\* a scan-list slot written with the channel as index + 1
fromScanListObj_IndexPlusOne(k) ==
  LET r == ToStoredIndex(tables, lastOp, config.scan[k + 1].priority, 0, 1, 1)
  IN [ok |-> r.ok, tables |-> r.tables, lastOp |-> r.lastOp,
      slot |-> [valid |-> TRUE, priority_ch1 |-> r.value]]

\* scanlist_t::fromScanListObj(): the slot for scan list k of the configuration
fromScanListObj(k) ==
  LET r == ToStoredIndex(tables, lastOp, config.scan[k + 1].priority, 0, 1, 2)
  IN [ok |-> r.ok, tables |-> r.tables, lastOp |-> r.lastOp,
      slot |-> [valid |-> TRUE, priority_ch1 |-> r.value]]

\* phase 2, next channel slot: the channel at this position is written, a
\* slot past the last channel is cleared; a reference to an object that has
\* no index fails the session and leaves the slot as it is
SerializeChannel ==
  /\ phase = "EncodePopulated"
  /\ chanNext < NChanSlots
  /\ IF chanNext < Len(config.chan)
     THEN \E r \in {fromChannelObj(chanNext)} :
             /\ tables' = r.tables
             /\ lastOp' = r.lastOp
             /\ IF r.ok
                THEN /\ image' = [image EXCEPT !.chan[chanNext + 1] = r.slot]
                     /\ chanNext' = chanNext + 1
                     /\ phase' = phase
                ELSE /\ phase' = "UnresolvedReference"
                     /\ UNCHANGED <<image, chanNext>>
     ELSE /\ image' = [image EXCEPT !.chan[chanNext + 1] = ClearedImage.chan[1]]
          /\ chanNext' = chanNext + 1
          /\ UNCHANGED <<tables, lastOp, phase>>
  /\ UNCHANGED <<scanNext, linked, refs, encVars, elemVars, hidVars, wrapVars>>

\* phase 2, next scan-list slot, once the channel slots are written
SerializeScanList ==
  /\ phase = "EncodePopulated"
  /\ chanNext = NChanSlots
  /\ scanNext < NScanSlots
  /\ IF scanNext < Len(config.scan)
     THEN \E r \in {fromScanListObj(scanNext)} :
             /\ tables' = r.tables
             /\ lastOp' = r.lastOp
             /\ IF r.ok
                THEN /\ image' = [image EXCEPT !.scan[scanNext + 1] = r.slot]
                     /\ scanNext' = scanNext + 1
                     /\ phase' = phase
                ELSE /\ phase' = "UnresolvedReference"
                     /\ UNCHANGED <<image, scanNext>>
     ELSE /\ image' = [image EXCEPT !.scan[scanNext + 1] = ClearedImage.scan[1]]
          /\ scanNext' = scanNext + 1
          /\ UNCHANGED <<tables, lastOp, phase>>
  /\ UNCHANGED <<chanNext, linked, refs, encVars, elemVars, hidVars, wrapVars>>

\* every slot has been written
EncodeFinish ==
  /\ phase = "EncodePopulated"
  /\ chanNext = NChanSlots
  /\ scanNext = NScanSlots
  /\ phase' = "Serialized"
  /\ UNCHANGED <<tables, lastOp, image, chanNext, scanNext, linked, refs,
                 encVars, elemVars, hidVars, wrapVars>>

\* the image just written is given to a decode session
DecodeWritten ==
  /\ phase = "Serialized"
  /\ phase' = "Empty"
  /\ tables' = Context.tables
  /\ lastOp' = Op("Context", TRUE)
  /\ chanNext' = 0
  /\ scanNext' = 0
  /\ linked' = {}
  /\ refs' = EmptyHash
  /\ UNCHANGED <<image, encVars, elemVars, hidVars, wrapVars>>

EncodeInit ==
  /\ tables = Context.tables
  /\ lastOp = Op("Context", TRUE)
  /\ \E c \in ChannelLists :
       \E l \in ScanListLists(c), b \in {ClearedImage, StaleImage} :
         config = [chan |-> c, scan |-> l, before |-> b]
  /\ image = config.before
  /\ phase = "EncodeEmpty"
  /\ chanNext = 0
  /\ scanNext = 0
  /\ linked = {}
  /\ refs = EmptyHash
  /\ data = <<>>
  /\ host = "little"
  /\ acc = NoCall
  /\ hid = NoDevice
  /\ frame = NoFrame
  /\ list = NoWrapper
  /\ wcall = NoCall

EncodeNext ==
  \/ RegisterChannel
  \/ RegisterScanList
  \/ EncodePopulate
  \/ SerializeChannel
  \/ SerializeScanList
  \/ EncodeFinish

\* an encode of any configuration, followed by the decode of the image it
\* has written
RoundTripNext ==
  \/ EncodeNext
  \/ DecodeWritten
  \/ DecodeNext

RoundTripSpec == EncodeInit /\ [][RoundTripNext]_vars

\* one session at a time: a decode of any image or an encode of any
\* configuration, from its start to its end
CodecInit == DecodeInit \/ EncodeInit

CodecNext ==
  \/ EncodeNext
  \/ DecodeNext

CodecSpec == CodecInit /\ [][CodecNext]_vars

-----------------------------------------------------------------------------
(* Properties of an encode session *)

\* the configuration has more entities of a category than the image has slots
OverCapacity ==
  Len(config.chan) > NChanSlots \/ Len(config.scan) > NScanSlots

\* C12: an encode session given one entity more than a category has slots
\* never gets past registration: it can only go on to the capacity-exceeded
\* failure, and the image holds, byte for byte, what it held before.
C12_CapacityEnforced ==
  OverCapacity =>
    /\ phase \in {"EncodeEmpty", "CapacityExceeded"}
    /\ image = config.before
    /\ phase = "EncodeEmpty" => ENABLED (RegisterChannel \/ RegisterScanList)

\* a session given one scan list too many has failed after registering a
\* full list of channels, over an image that held an earlier codeplug
C12_Witness ==
  /\ phase = "CapacityExceeded"
  /\ Len(config.chan) = NChanSlots
  /\ Len(config.scan) = NScanSlots + 1
  /\ config.before = StaleImage
  /\ image = StaleImage

\* the entities of the configuration, and the position of one in its list
ConfigEntities ==
  {ChannelEntity(config.chan, k) : k \in 0..(Len(config.chan) - 1)}
  \cup {ScanListEntity(k) : k \in 0..(Len(config.scan) - 1)}

\* the reference fields that name an object: the entity that holds the field,
\* the object named, and where and with which offset its index is written
ConfigReferences ==
  {[from |-> ChannelEntity(config.chan, k), to |-> config.chan[k + 1].scanlist,
    category |-> "chan", slot |-> k, offset |-> 1] :
     k \in {j \in 0..(Len(config.chan) - 1) : config.chan[j + 1].scanlist # Null}}
  \cup
  {[from |-> ScanListEntity(k), to |-> config.scan[k + 1].priority,
    category |-> "scan", slot |-> k, offset |-> 2] :
     k \in {j \in 0..(Len(config.scan) - 1) :
              config.scan[j + 1].priority \notin {Null, SelectedChannel}}}

\* the index field of a slot of an image
StoredIndex(img, category, slot) ==
  IF category = "chan"
  THEN img.chan[slot + 1].scan_list_index
  ELSE img.scan[slot + 1].priority_ch1

ValidConfig ==
  /\ config # NoConfig
  /\ ~OverCapacity
  /\ \A r \in ConfigReferences : r.to \in ConfigEntities

\* the guards of the steps of RoundTripNext, action by action: each action is
\* its guard and assignments to the primed variables, so that a step can be
\* taken exactly when one of the guards holds
SessionCanStep ==
  \/ phase = "EncodeEmpty" /\ chanNext < Len(config.chan)
  \/ phase = "EncodeEmpty" /\ chanNext = Len(config.chan)
       /\ scanNext < Len(config.scan)
  \/ phase = "EncodeEmpty" /\ chanNext = Len(config.chan)
       /\ scanNext = Len(config.scan)
  \/ phase = "EncodePopulated" /\ chanNext < NChanSlots
  \/ phase = "EncodePopulated" /\ chanNext = NChanSlots /\ scanNext < NScanSlots
  \/ phase = "EncodePopulated" /\ chanNext = NChanSlots /\ scanNext = NScanSlots
  \/ phase = "Serialized"
  \/ phase = "Empty" /\ chanNext < NChanSlots
  \/ phase = "Empty" /\ scanNext < NScanSlots
  \/ phase = "Empty" /\ chanNext = NChanSlots /\ scanNext = NScanSlots
  \/ phase = "Populated" /\ Decoded \ linked # {}
  \/ phase = "Populated" /\ Decoded \subseteq linked

\* the guards are the enabling condition of RoundTripNext
SessionCanStepIsEnabled == SessionCanStep <=> ENABLED RoundTripNext

-----------------------------------------------------------------------------
(* The state machine of a session *)

\* the states of a decode and of an encode session
SuccessStates == {"Linked", "Serialized"}
FailedStates == {"Failed", "CapacityExceeded", "UnresolvedReference"}

\* Empty -> Populated -> Linked / Serialized, and Empty or Populated -> Failed
SessionMoves ==
  {<<"Empty", "Populated">>, <<"Populated", "Linked">>,
   <<"Empty", "Failed">>, <<"Populated", "Failed">>,
   <<"EncodeEmpty", "EncodePopulated">>, <<"EncodePopulated", "Serialized">>,
   <<"EncodeEmpty", "CapacityExceeded">>, <<"EncodeEmpty", "Failed">>,
   <<"EncodePopulated", "UnresolvedReference">>}

\* the entities of the configuration whose slot has been written
Written ==
  {ChannelEntity(config.chan, k) :
     k \in {j \in 0..(Len(config.chan) - 1) : j < chanNext}}
  \cup {ScanListEntity(k) :
     k \in {j \in 0..(Len(config.scan) - 1) : j < scanNext}}

\* no object linked so far, and no entity written so far, has a reference
\* that names an object and did not resolve
NoneUnresolved ==
  /\ \A o \in linked :
       /\ o \in DOMAIN refs
       /\ NamesObject(o) => (NamedSlotOccupied(o) /\ refs[o] # Null)
       /\ ~NamesObject(o) => refs[o] \in {Null, SelectedChannel}
  /\ phase \in {"EncodePopulated", "Serialized"} =>
       /\ ~OverCapacity
       /\ \A r \in ConfigReferences :
            r.from \in Written =>
              /\ r.to \in ConfigEntities
              /\ StoredIndex(image, r.category, r.slot) = r.to.id + r.offset

-----------------------------------------------------------------------------
(* The order of the two phases of a decode session *)

\* phase 1 is over: every slot of every category has been looked at, and
\* every occupied slot has its object registered at the index of the slot
AllInstantiated ==
  /\ chanNext = NChanSlots
  /\ scanNext = NScanSlots
  /\ \A o \in Decoded : RegisteredAt(tables, o, toUInt(o.id))

\* the object the stored reference of o names, when it names an occupied slot
NamedObject(o) ==
  IF StoredRef(o).target = "ScanList"
  THEN toScanListObj(NamedSlot(o))
  ELSE toChannelObj(NamedSlot(o))

\* C21: no object is linked before every slot of every category has been
\* looked at and every occupied slot has its object registered, in whatever
\* order the slots of the two categories were looked at; a link step of a
\* channel that names an occupied scan-list slot (the category looked at
\* later in slot order) then sets its reference to that scan list, just as
\* a link step of a scan list that names an occupied channel slot sets its
\* reference to that channel.
C21_LinkAfterInstantiate ==
  [][linked' # linked =>
       /\ AllInstantiated
       /\ \A o \in linked' \ linked :
            (NamesObject(o) /\ NamedSlotOccupied(o)) =>
              /\ phase' = "Populated"
              /\ o \in DOMAIN refs'
              /\ refs'[o] = NamedObject(o)]_vars

\* the first link step has set the reference of the channel of slot 0 to
\* the scan list of slot 0, which is not linked yet and names that channel
C21_Witness ==
  /\ phase = "Populated"
  /\ linked = {toChannelObj(0)}
  /\ image.chan[1].valid /\ image.chan[1].scan_list_index = 1
  /\ image.scan[1].valid /\ image.scan[1].priority_ch1 = 2
  /\ refs[toChannelObj(0)] = toScanListObj(0)
  /\ toScanListObj(0) \notin linked

\* the slots of a category and the validity marker of each: the bit of the
\* bank bitmap for a channel, the valid byte for a scan list
Categories ==
  [Channel |-> [slots |-> NChanSlots, next |-> chanNext,
                valid |-> [i \in 0..(NChanSlots - 1) |-> image.chan[i + 1].valid],
                object |-> [i \in 0..(NChanSlots - 1) |-> toChannelObj(i)]],
   ScanList |-> [slots |-> NScanSlots, next |-> scanNext,
                 valid |-> [i \in 0..(NScanSlots - 1) |-> image.scan[i + 1].valid],
                 object |-> [i \in 0..(NScanSlots - 1) |-> toScanListObj(i)]]]

\* C22: for every category and every slot i of it that phase 1 has looked
\* at, the Context holds an object at i exactly if the validity marker of
\* the slot is set, and it is the object made from the slot; the Context
\* holds nothing for a slot not looked at yet, nothing at an index past the
\* capacity and nothing in the table of any other type; and as long as no
\* object has been linked no reference field of any object is set.
C22_OccupiedSlotsOnly ==
  /\ \A ty \in DOMAIN Categories :
       LET cat == Categories[ty]
       IN /\ Resolves(tables, ty)
          /\ \A i \in 0..(cat.slots - 1) :
               /\ i < cat.next =>
                    (Occupied(tables, ty, toUInt(i)) <=> cat.valid[i])
               /\ i >= cat.next => ~Occupied(tables, ty, toUInt(i))
               /\ Occupied(tables, ty, toUInt(i)) =>
                    /\ RegisteredAt(tables, cat.object[i], toUInt(i))
                    /\ index(tables, cat.object[i]).val = i
          /\ DOMAIN SlotTable(tables, ty).objects
               \subseteq {toUInt(i) : i \in 0..(cat.slots - 1)}
          /\ DOMAIN SlotTable(tables, ty).indices
               \subseteq {cat.object[i] : i \in 0..(cat.slots - 1)}
  /\ \A ty \in DOMAIN tables :
       ty \notin {Nearest(tables, c) : c \in DOMAIN Categories} =>
         tables[ty] = Table
  /\ (phase = "Empty" \/ linked = {}) => refs = EmptyHash

\* phase 1 is over for an image whose channel slot 0 is occupied and whose
\* channel slot 1 and scan-list slot 0 are not: the Context holds the one
\* channel, and nothing is linked
C22_Witness ==
  /\ phase = "Populated"
  /\ linked = {}
  /\ image.chan[1].valid /\ ~image.chan[2].valid /\ ~image.scan[1].valid
  /\ RegisteredAt(tables, toChannelObj(0), toUInt(0))
  /\ ~Occupied(tables, "Channel", toUInt(1))
  /\ ~Occupied(tables, "ScanList", toUInt(0))
  /\ refs = EmptyHash

-----------------------------------------------------------------------------
(* Termination of a session *)

Min(m, n) == IF m < n THEN m ELSE n

\* the states in which a session has ended
TerminalStates == SuccessStates \cup FailedStates

\* the most steps a session can take: one for every slot in each of the two
\* phases, one at the end of each phase
MaxSteps == 2 * (NChanSlots + NScanSlots) + 2

\* the most steps a session can still take from the state it is in
StepsLeft ==
  CASE phase = "Empty" ->
         (NChanSlots - chanNext) + (NScanSlots - scanNext)
           + Cardinality(Decoded) + 2
    [] phase = "Populated" -> Cardinality(Decoded \ linked) + 1
    [] phase = "EncodeEmpty" ->
         (Min(Len(config.chan), NChanSlots) - Min(chanNext, NChanSlots))
           + (Min(Len(config.scan), NScanSlots) - Min(scanNext, NScanSlots))
           + NChanSlots + NScanSlots + 2
    [] phase = "EncodePopulated" ->
         (NChanSlots - chanNext) + (NScanSlots - scanNext) + 1
    [] OTHER -> 0

\* C23: every step of a decode or an encode session takes the number of
\* steps it can still take down by at least one; that number is at most
\* MaxSteps, two per slot of every category plus two, and it is zero exactly
\* in the states Linked, Serialized or failed; a session that has not ended
\* can take a step; and a link step links one object and sets the reference
\* of that object only, whatever the references are, cycles included.
C23_BoundedTermination ==
  /\ [][/\ StepsLeft' < StepsLeft
        /\ linked' # linked =>
             /\ Cardinality(linked' \ linked) = 1
             /\ linked \subseteq linked'
             /\ (DOMAIN refs') \ (DOMAIN refs) \subseteq linked' \ linked
             /\ \A o \in DOMAIN refs : refs'[o] = refs[o]]_vars
  /\ [](StepsLeft \in 0..MaxSteps)
  /\ [](StepsLeft = 0 <=> phase \in TerminalStates)
  /\ [](phase \notin TerminalStates => SessionCanStep)

\* a decode session has ended Linked on an image in which the channel of
\* slot 0 names the scan list of slot 0 and that scan list names the channel
C23_Witness ==
  /\ phase = "Linked"
  /\ config = NoConfig
  /\ image.chan[1].valid /\ image.chan[1].scan_list_index = 1
  /\ image.scan[1].valid /\ image.scan[1].priority_ch1 = 2
  /\ refs[toChannelObj(0)] = toScanListObj(0)
  /\ refs[toScanListObj(0)] = toChannelObj(0)
  /\ StepsLeft = 0

-----------------------------------------------------------------------------
(* CodePlug::Element: accessors over the bytes at _data.  The buffer is a   *)
(* sequence of bytes, the byte at offset o is element o + 1.  A getter is   *)
(* an operator on the buffer, a setter gives the buffer after the call.     *)

\* bytes of the buffer an Element is given
BufLen == 6

\* operators of C on non-negative integers
Shl(x, n) == x * (2 ^ n)
Shr(x, n) == x \div (2 ^ n)

RECURSIVE BitAnd(_, _)
BitAnd(x, y) ==
  IF x = 0 \/ y = 0 THEN 0
  ELSE (x % 2) * (y % 2) + 2 * BitAnd(x \div 2, y \div 2)

RECURSIVE BitOr(_, _)
BitOr(x, y) ==
  IF x = 0 THEN y
  ELSE IF y = 0 THEN x
  ELSE (IF x % 2 = 1 \/ y % 2 = 1 THEN 1 ELSE 0) + 2 * BitOr(x \div 2, y \div 2)

\* x & ~m for a byte x: the complement has every bit above those of m set
RECURSIVE AndNot(_, _)
AndNot(x, m) ==
  IF x = 0 THEN 0
  ELSE (x % 2) * (1 - (m % 2)) + 2 * AndNot(x \div 2, m \div 2)

\* conversion of an int to uint8_t on assignment to a byte
ToByte(x) == x % 256

\* the literals 0b11, 0b111, 0b1111, 0b11111, 0b111111 of getUInt2..getUInt6
Mask(n) == (2 ^ n) - 1

\* getUInt2 .. getUInt6
getUIntN(buf, n, offset, bit) ==
  BitAnd(Shr(buf[offset + 1], bit), Mask(n))

\* a setter that ors the value in without clearing the field first
setUIntN_NoClear(buf, n, offset, bit, value) ==
  [buf EXCEPT ![offset + 1] =
     ToByte(BitOr(buf[offset + 1], Shl(BitAnd(value, Mask(n)), bit)))]

\* setUInt2 .. setUInt6
setUIntN(buf, n, offset, bit, value) ==
  LET cleared == ToByte(AndNot(buf[offset + 1], Shl(Mask(n), bit)))
  IN [buf EXCEPT ![offset + 1] =
        ToByte(BitOr(cleared, Shl(BitAnd(value, Mask(n)), bit)))]

\* getUInt8, setUInt8
getUInt8(buf, offset) == buf[offset + 1]

setUInt8(buf, offset, value) == [buf EXCEPT ![offset + 1] = value]

\* a uint16_t read or written through a uint16_t * at _data + offset: the
\* machine h takes the two bytes in its own order
Load16(buf, offset, h) ==
  IF h = "little"
  THEN buf[offset + 1] + 256 * buf[offset + 2]
  ELSE 256 * buf[offset + 1] + buf[offset + 2]

Store16(buf, offset, w, h) ==
  IF h = "little"
  THEN [buf EXCEPT ![offset + 1] = w % 256, ![offset + 2] = w \div 256]
  ELSE [buf EXCEPT ![offset + 1] = w \div 256, ![offset + 2] = w % 256]

\* a uint32_t (as its two 16-bit halves) through a uint32_t * at _data + offset
Load32(buf, offset, h) ==
  IF h = "little"
  THEN U(Load16(buf, offset + 2, h), Load16(buf, offset, h))
  ELSE U(Load16(buf, offset, h), Load16(buf, offset + 2, h))

Store32(buf, offset, u, h) ==
  IF h = "little"
  THEN Store16(Store16(buf, offset, u.lo, h), offset + 2, u.hi, h)
  ELSE Store16(Store16(buf, offset, u.hi, h), offset + 2, u.lo, h)

\* qbswap on 16 and 32 bits
bswap16(w) == (w % 256) * 256 + (w \div 256)
bswap32(u) == U(bswap16(u.lo), bswap16(u.hi))

\* qFromBigEndian / qToBigEndian and qFromLittleEndian / qToLittleEndian on
\* machine h: the identity on a machine of that order, a byte swap on the other
qBigEndian16(w, h) == IF h = "big" THEN w ELSE bswap16(w)
qLittleEndian16(w, h) == IF h = "little" THEN w ELSE bswap16(w)
qBigEndian32(u, h) == IF h = "big" THEN u ELSE bswap32(u)
qLittleEndian32(u, h) == IF h = "little" THEN u ELSE bswap32(u)

getUInt16_be(buf, offset, h) == qBigEndian16(Load16(buf, offset, h), h)
getUInt16_le(buf, offset, h) == qLittleEndian16(Load16(buf, offset, h), h)
setUInt16_be(buf, offset, value, h) == Store16(buf, offset, qBigEndian16(value, h), h)
setUInt16_le(buf, offset, value, h) == Store16(buf, offset, qLittleEndian16(value, h), h)

\* the 24-bit accessors go byte by byte; value is a uint32_t
getUInt24_be(buf, offset) ==
  U(buf[offset + 1], 256 * buf[offset + 2] + buf[offset + 3])

getUInt24_le(buf, offset) ==
  U(buf[offset + 3], 256 * buf[offset + 2] + buf[offset + 1])

setUInt24_be(buf, offset, value) ==
  [buf EXCEPT ![offset + 1] = value.hi % 256,
              ![offset + 2] = (value.lo \div 256) % 256,
              ![offset + 3] = value.lo % 256]

setUInt24_le(buf, offset, value) ==
  [buf EXCEPT ![offset + 1] = value.lo % 256,
              ![offset + 2] = (value.lo \div 256) % 256,
              ![offset + 3] = value.hi % 256]

getUInt32_be(buf, offset, h) == qBigEndian32(Load32(buf, offset, h), h)
getUInt32_le(buf, offset, h) == qLittleEndian32(Load32(buf, offset, h), h)

\* a setter that stores the value as the machine has it
setUInt32_be_HostOrder(buf, offset, value, h) == Store32(buf, offset, value, h)

setUInt32_be(buf, offset, value, h) == Store32(buf, offset, qBigEndian32(value, h), h)
setUInt32_le(buf, offset, value, h) == Store32(buf, offset, qLittleEndian32(value, h), h)

\* nibble i (0 is the lowest) of a 16-bit word: (val >> 4*i) & 0xf
Nibble(w, i) == Shr(w, 4 * i) % 16

\* decimal digit i (0 is the lowest) of an int: (val / 10^i) % 10
Digit(val, i) == (val \div (10 ^ i)) % 10

\* val / 10 and val % 10 for a uint32_t in halves
Div10(u) == U(u.hi \div 10, ((u.hi % 10) * Half + u.lo) \div 10)
Mod10(u) == ((u.hi % 10) * Half + u.lo) % 10

\* decimal digit i of a uint32_t in halves: (val / 10^i) % 10
RECURSIVE Digit32(_, _)
Digit32(u, i) == IF i = 0 THEN Mod10(u) ELSE Digit32(Div10(u), i - 1)

getBCD2(buf, offset) ==
  LET val == getUInt8(buf, offset)
  IN Nibble(val, 0) + Nibble(val, 1) * 10

\* a setter that takes val / 10 for the high digit
setBCD2_NoModulo(buf, offset, val) ==
  LET a == val \div 10
      b == val % 10
  IN setUInt8(buf, offset, ToByte(Shl(a, 4) + b))

setBCD2(buf, offset, val) ==
  LET a == (val \div 10) % 10
      b == val % 10
  IN setUInt8(buf, offset, ToByte(Shl(a, 4) + b))

\* the value of four nibbles as decimal digits
FromBCD4(val) ==
  Nibble(val, 0) + Nibble(val, 1) * 10 + Nibble(val, 2) * 100 + Nibble(val, 3) * 1000

\* four decimal digits of val as nibbles
ToBCD4(val) ==
  Shl(Digit(val, 3), 12) + Shl(Digit(val, 2), 8) + Shl(Digit(val, 1), 4) + Digit(val, 0)

getBCD4_be(buf, offset, h) == FromBCD4(getUInt16_be(buf, offset, h))
getBCD4_le(buf, offset, h) == FromBCD4(getUInt16_le(buf, offset, h))
setBCD4_be(buf, offset, val, h) == setUInt16_be(buf, offset, ToBCD4(val), h)
setBCD4_le(buf, offset, val, h) == setUInt16_le(buf, offset, ToBCD4(val), h)

\* the value of eight nibbles (a uint32_t in halves) as decimal digits
FromBCD8(u) == FromBCD4(u.lo) + FromBCD4(u.hi) * 10000

\* eight decimal digits of a uint32_t as nibbles
ToBCD8(u) ==
  U(Shl(Digit32(u, 7), 12) + Shl(Digit32(u, 6), 8) + Shl(Digit32(u, 5), 4) + Digit32(u, 4),
    Shl(Digit32(u, 3), 12) + Shl(Digit32(u, 2), 8) + Shl(Digit32(u, 1), 4) + Digit32(u, 0))

getBCD8_be(buf, offset, h) == FromBCD8(getUInt32_be(buf, offset, h))
getBCD8_le(buf, offset, h) == FromBCD8(getUInt32_le(buf, offset, h))
setBCD8_be(buf, offset, val, h) == setUInt32_be(buf, offset, ToBCD8(val), h)
setBCD8_le(buf, offset, val, h) == setUInt32_le(buf, offset, ToBCD8(val), h)

\* A QString is the sequence of its 16-bit code units.
\* QChar::toLatin1(): the character as a byte, 0 for one above 0xff
toLatin1(c) == IF c > 255 THEN 0 ELSE c

\* the loop of readASCII from position i on
RECURSIVE readASCIIFrom(_, _, _, _, _)
readASCIIFrom(buf, offset, maxlen, eos, i) ==
  IF i < maxlen /\ buf[offset + i + 1] # 0 /\ eos # buf[offset + i + 1]
  THEN <<buf[offset + i + 1]>> \o readASCIIFrom(buf, offset, maxlen, eos, i + 1)
  ELSE <<>>

readASCII(buf, offset, maxlen, eos) == readASCIIFrom(buf, offset, maxlen, eos, 0)

\* a writer that stops after the text
writeASCII_NoPadding(buf, offset, txt, maxlen, eos) ==
  [p \in DOMAIN buf |->
     LET i == p - 1 - offset
     IN IF i >= 0 /\ i < maxlen /\ i < Len(txt)
        THEN toLatin1(txt[i + 1])
        ELSE buf[p]]

writeASCII(buf, offset, txt, maxlen, eos) ==
  [p \in DOMAIN buf |->
     LET i == p - 1 - offset
     IN IF i >= 0 /\ i < maxlen
        THEN IF i < Len(txt) THEN toLatin1(txt[i + 1]) ELSE eos
        ELSE buf[p]]

\* the loop of readUnicode from position i on; ptr[i] is a uint16_t of machine h
RECURSIVE readUnicodeFrom(_, _, _, _, _, _)
readUnicodeFrom(buf, offset, maxlen, eos, h, i) ==
  IF i < maxlen /\ eos # Load16(buf, offset + 2 * i, h)
  THEN <<Load16(buf, offset + 2 * i, h)>>
       \o readUnicodeFrom(buf, offset, maxlen, eos, h, i + 1)
  ELSE <<>>

readUnicode(buf, offset, maxlen, eos, h) ==
  readUnicodeFrom(buf, offset, maxlen, eos, h, 0)

\* the loop of writeUnicode from position i on
RECURSIVE writeUnicodeFrom(_, _, _, _, _, _, _)
writeUnicodeFrom(buf, offset, txt, maxlen, eos, h, i) ==
  IF i < maxlen
  THEN writeUnicodeFrom(
         Store16(buf, offset + 2 * i, IF i < Len(txt) THEN txt[i + 1] ELSE eos, h),
         offset, txt, maxlen, eos, h, i + 1)
  ELSE buf

writeUnicode(buf, offset, txt, maxlen, eos, h) ==
  writeUnicodeFrom(buf, offset, txt, maxlen, eos, h, 0)

-----------------------------------------------------------------------------
(* An Element over a buffer of BufLen bytes on which one setter is called.  *)
(* acc keeps the call with its arguments and the buffer as it was before.   *)

\* longest text given to writeASCII and writeUnicode
MaxStrLen == 2

\* the buffers an Element is given: zeros, 0xff, and bytes that all differ
InitialBuffers ==
  { [i \in 1..BufLen |-> 0],
    [i \in 1..BufLen |-> 255],
    [i \in 1..BufLen |-> (i * 37 + 128) % 256] }

\* arguments of the setters
Values8 == 0..255

\* values given to setUInt2 .. setUInt6: all that fit six bits, and some
\* with higher bits set
FieldValues == 0..63 \cup {64, 85, 127, 128, 170, 255}

Values16 == {0, 7, 42, 255, 256, 258, 999, 1234, 4660, 9999, 10000, 12345,
             32768, 43981, 65535}

\* uint32_t arguments: 0, 0x0102A1B2-like words, 2^31, 2^32 - 1, and the
\* decimal 12345678, 99999999, 100000000, 439975000
Values32 ==
  {U(h, l) : h \in {0, 258, 32768, 65535}, l \in {0, 41394, 65535}}
  \cup {U(188, 24910), U(1525, 57599), U(1525, 57600), U(6713, 31832)}

\* code units of the texts: A, B, NUL, U+00FF, U+20AC and U+FFFF
Chars == {65, 66, 0, 255, 8364}
Units == {65, 0, 8364, 65535}

Call(op, args) == [op |-> op, args |-> args, before |-> data]

\* no setter has been called yet; a call changes the buffer only
FirstCall ==
  /\ acc = NoCall
  /\ host' = host
  /\ UNCHANGED <<ctxVars, decVars, encVars, hidVars, wrapVars>>

SetUIntN ==
  /\ FirstCall
  /\ \E n \in 2..6, offset \in 0..(BufLen - 1), bit \in 0..7, value \in FieldValues :
       /\ data' = setUIntN(data, n, offset, bit, value)
       /\ acc' = Call("setUIntN", [n |-> n, offset |-> offset, bit |-> bit, value |-> value])

SetUInt16 ==
  /\ FirstCall
  /\ \E order \in {"be", "le"}, offset \in 0..(BufLen - 2), value \in Values16 :
       /\ data' = IF order = "be" THEN setUInt16_be(data, offset, value, host)
                                  ELSE setUInt16_le(data, offset, value, host)
       /\ acc' = Call("setUInt16", [order |-> order, offset |-> offset, value |-> value])

SetUInt24 ==
  /\ FirstCall
  /\ \E order \in {"be", "le"}, offset \in 0..(BufLen - 3), value \in Values32 :
       /\ data' = IF order = "be" THEN setUInt24_be(data, offset, value)
                                  ELSE setUInt24_le(data, offset, value)
       /\ acc' = Call("setUInt24", [order |-> order, offset |-> offset, value |-> value])

SetUInt32 ==
  /\ FirstCall
  /\ \E order \in {"be", "le"}, offset \in 0..(BufLen - 4), value \in Values32 :
       /\ data' = IF order = "be" THEN setUInt32_be(data, offset, value, host)
                                  ELSE setUInt32_le(data, offset, value, host)
       /\ acc' = Call("setUInt32", [order |-> order, offset |-> offset, value |-> value])

SetBCD2 ==
  /\ FirstCall
  /\ \E offset \in 0..(BufLen - 1), val \in Values8 :
       /\ data' = setBCD2(data, offset, val)
       /\ acc' = Call("setBCD2", [order |-> "be", offset |-> offset, val |-> val])

SetBCD4 ==
  /\ FirstCall
  /\ \E order \in {"be", "le"}, offset \in 0..(BufLen - 2), val \in Values16 :
       /\ data' = IF order = "be" THEN setBCD4_be(data, offset, val, host)
                                  ELSE setBCD4_le(data, offset, val, host)
       /\ acc' = Call("setBCD4", [order |-> order, offset |-> offset, val |-> val])

SetBCD8 ==
  /\ FirstCall
  /\ \E order \in {"be", "le"}, offset \in 0..(BufLen - 4), val \in Values32 :
       /\ data' = IF order = "be" THEN setBCD8_be(data, offset, val, host)
                                  ELSE setBCD8_le(data, offset, val, host)
       /\ acc' = Call("setBCD8", [order |-> order, offset |-> offset, val |-> val])

WriteASCII ==
  /\ FirstCall
  /\ \E maxlen \in 0..(MaxStrLen + 1), eos \in {0, 255} :
       \E offset \in 0..(BufLen - maxlen), txt \in SeqUpTo(Chars, MaxStrLen) :
         /\ data' = writeASCII(data, offset, txt, maxlen, eos)
         /\ acc' = Call("writeASCII",
                        [offset |-> offset, txt |-> txt, maxlen |-> maxlen, eos |-> eos])

WriteUnicode ==
  /\ FirstCall
  /\ \E maxlen \in 0..(MaxStrLen + 1), eos \in {0, 65535} :
       \E offset \in 0..(BufLen - 2 * maxlen), txt \in SeqUpTo(Units, MaxStrLen) :
         /\ data' = writeUnicode(data, offset, txt, maxlen, eos, host)
         /\ acc' = Call("writeUnicode",
                        [offset |-> offset, txt |-> txt, maxlen |-> maxlen, eos |-> eos])

ElementInit ==
  /\ tables = Context.tables
  /\ lastOp = Op("Context", TRUE)
  /\ image = NoImage
  /\ phase = "NoSession"
  /\ chanNext = 0
  /\ scanNext = 0
  /\ linked = {}
  /\ refs = EmptyHash
  /\ config = NoConfig
  /\ data \in InitialBuffers
  /\ host \in {"little", "big"}
  /\ acc = NoCall
  /\ hid = NoDevice
  /\ frame = NoFrame
  /\ list = NoWrapper
  /\ wcall = NoCall

ElementNext ==
  \/ SetUIntN
  \/ SetUInt16
  \/ SetUInt24
  \/ SetUInt32
  \/ SetBCD2
  \/ SetBCD4
  \/ SetBCD8
  \/ WriteASCII
  \/ WriteUnicode

ElementSpec == ElementInit /\ [][ElementNext]_vars

-----------------------------------------------------------------------------
(* Properties of the Element accessors *)

\* bit j of a byte
Bit(x, j) == (x \div (2 ^ j)) % 2

\* bit j of byte p - 1 is one of the n bits that start at bit `bit` of the
\* byte at offset, counting on into the next byte
InField(p, j, n, offset, bit) ==
  LET q == 8 * (p - 1) + j
  IN q >= 8 * offset + bit /\ q < 8 * offset + bit + n

\* every bit of the buffer outside that field is as it was before the call
OutsideFieldUnchanged(n, offset, bit) ==
  \A p \in 1..BufLen :
    IF p \in {offset + 1, offset + 2}
    THEN \A j \in 0..7 :
           InField(p, j, n, offset, bit) \/ Bit(data[p], j) = Bit(acc.before[p], j)
    ELSE data[p] = acc.before[p]

\* C16 as stated: for every N in 2..6, offset, bit index 0..7 and 8-bit v,
\* after setUIntN(o, b, v) getUIntN(o, b) is v & ((1 << N) - 1) and every
\* bit outside the N-bit field is unchanged.
C16_BitFieldExact ==
  acc.op = "setUIntN" =>
    /\ getUIntN(data, acc.args.n, acc.args.offset, acc.args.bit)
         = acc.args.value % (2 ^ acc.args.n)
    /\ OutsideFieldUnchanged(acc.args.n, acc.args.offset, acc.args.bit)

\* C16, amended: this holds for the bit indices b <= 8 - N, where the field
\* lies within the byte; for b > 8 - N only the 8 - b low bits of the value
\* are stored, getUIntN returns v & ((1 << (8 - b)) - 1), and no bit of
\* another byte is changed.
C16_BitFieldWithinByte ==
  acc.op = "setUIntN" =>
    /\ acc.args.bit + acc.args.n <= 8 =>
         getUIntN(data, acc.args.n, acc.args.offset, acc.args.bit)
           = acc.args.value % (2 ^ acc.args.n)
    /\ acc.args.bit + acc.args.n > 8 =>
         getUIntN(data, acc.args.n, acc.args.offset, acc.args.bit)
           = acc.args.value % (2 ^ (8 - acc.args.bit))
    /\ OutsideFieldUnchanged(acc.args.n, acc.args.offset, acc.args.bit)
    /\ \A p \in 1..BufLen : p # acc.args.offset + 1 => data[p] = acc.before[p]

\* setUInt3(o, 2, 0xff) on a byte 0xa5-like byte with bits set on both sides
\* of the field: the field is all ones, the other bits are as before
C16_Witness ==
  /\ acc.op = "setUIntN"
  /\ acc.args.n = 3 /\ acc.args.bit = 2 /\ acc.args.value = 255
  /\ acc.before[acc.args.offset + 1] = 165
  /\ data[acc.args.offset + 1] = 189

\* the bytes outside offset .. offset + width - 1 are as before the call
OutsideBytesUnchanged(offset, width) ==
  \A p \in 1..BufLen :
    (p - 1 < offset \/ p - 1 >= offset + width) => data[p] = acc.before[p]

\* v mod 10^8 for a uint32_t v in halves, without leaving 31 bits
Mod1e8(u) ==
  (((((u.hi * 4096) % 100000000) * 16) % 100000000) + u.lo) % 100000000

\* digits, argument mod 10^D and value read back of the setBCD call in acc
BCDDigits == IF acc.op = "setBCD2" THEN 2 ELSE IF acc.op = "setBCD4" THEN 4 ELSE 8

BCDExpected ==
  IF acc.op = "setBCD2" THEN acc.args.val % 100
  ELSE IF acc.op = "setBCD4" THEN acc.args.val % 10000
  ELSE Mod1e8(acc.args.val)

BCDReadBack ==
  IF acc.op = "setBCD2" THEN getBCD2(data, acc.args.offset)
  ELSE IF acc.op = "setBCD4"
  THEN IF acc.args.order = "be" THEN getBCD4_be(data, acc.args.offset, host)
                                ELSE getBCD4_le(data, acc.args.offset, host)
  ELSE IF acc.args.order = "be" THEN getBCD8_be(data, acc.args.offset, host)
                                ELSE getBCD8_le(data, acc.args.offset, host)

\* nibble i (0 is the lowest) of the packed integer, as it lies in the buffer
BCDNibble(i) ==
  LET p == IF acc.args.order = "be"
           THEN acc.args.offset + (BCDDigits \div 2) - 1 - (i \div 2)
           ELSE acc.args.offset + (i \div 2)
  IN (data[p + 1] \div (IF i % 2 = 0 THEN 1 ELSE 16)) % 16

\* the argument is below 10^D
BCDFits ==
  IF acc.op = "setBCD2" THEN acc.args.val < 100
  ELSE IF acc.op = "setBCD4" THEN acc.args.val < 10000
  ELSE /\ acc.args.val.hi < 1526
       /\ acc.args.val.hi * Half + acc.args.val.lo < 100000000

BCDArgument ==
  IF acc.op = "setBCD8" THEN acc.args.val.hi * Half + acc.args.val.lo ELSE acc.args.val

\* C17: for D in {2, 4, 8}, both byte orders and both machines, after
\* setBCD_D(o, v) getBCD_D(o) is v mod 10^D, which is v for v < 10^D; nibble
\* i of the packed integer is decimal digit i of v mod 10^D, so every stored
\* nibble is in 0..9 and a value of fewer digits has zero high nibbles; the
\* D/2 bytes at o are the only ones written.
C17_BCDRoundTrip ==
  acc.op \in {"setBCD2", "setBCD4", "setBCD8"} =>
    /\ BCDReadBack = BCDExpected
    /\ BCDFits => BCDReadBack = BCDArgument
    /\ \A i \in 0..(BCDDigits - 1) :
         /\ BCDNibble(i) = (BCDExpected \div (10 ^ i)) % 10
         /\ BCDNibble(i) \in 0..9
         /\ BCDExpected < 10 ^ i => BCDNibble(i) = 0
    /\ OutsideBytesUnchanged(acc.args.offset, BCDDigits \div 2)

\* setBCD8_le(o, 4294967295) on a big-endian machine over bytes 0xff reads
\* back as 94967295, the lowest two digits 95 lie in the first byte
C17_Witness ==
  /\ acc.op = "setBCD8" /\ acc.args.order = "le" /\ host = "big"
  /\ acc.args.val = UIntMax
  /\ acc.before[acc.args.offset + 1] = 255
  /\ getBCD8_le(data, acc.args.offset, host) = 94967295
  /\ data[acc.args.offset + 1] = 149

\* width in bytes of the setUInt16 / 24 / 32 call in acc, and the bytes of
\* its argument (of its low 24 bits for setUInt24), most significant first
UIntWidth == IF acc.op = "setUInt16" THEN 2 ELSE IF acc.op = "setUInt24" THEN 3 ELSE 4

UIntBytes ==
  IF acc.op = "setUInt16"
  THEN <<acc.args.value \div 256, acc.args.value % 256>>
  ELSE IF acc.op = "setUInt24"
  THEN <<acc.args.value.hi % 256, acc.args.value.lo \div 256, acc.args.value.lo % 256>>
  ELSE <<acc.args.value.hi \div 256, acc.args.value.hi % 256,
         acc.args.value.lo \div 256, acc.args.value.lo % 256>>

Reversed(b) == [k \in 1..Len(b) |-> b[Len(b) + 1 - k]]

\* the value with these bytes, most significant first, as the getters give it
UIntOfBytes(b) ==
  IF Len(b) = 2 THEN b[1] * 256 + b[2]
  ELSE IF Len(b) = 3 THEN U(b[1], b[2] * 256 + b[3])
  ELSE U(b[1] * 256 + b[2], b[3] * 256 + b[4])

\* what the big-endian and the little-endian getter of that width return
UIntReadBack(order) ==
  IF acc.op = "setUInt16"
  THEN IF order = "be" THEN getUInt16_be(data, acc.args.offset, host)
                       ELSE getUInt16_le(data, acc.args.offset, host)
  ELSE IF acc.op = "setUInt24"
  THEN IF order = "be" THEN getUInt24_be(data, acc.args.offset)
                       ELSE getUInt24_le(data, acc.args.offset)
  ELSE IF order = "be" THEN getUInt32_be(data, acc.args.offset, host)
                       ELSE getUInt32_le(data, acc.args.offset, host)

\* C18: on either machine, after setUInt32_be(o, x) the four bytes at o are
\* those of x with the most significant first, getUInt32_be(o) is x and
\* getUInt32_le(o) is x with its bytes reversed; likewise with be and le
\* exchanged, for the 16-bit accessors, and for the 24-bit accessors on the
\* low 24 bits of x; the setter writes exactly the 4, 2 or 3 bytes at o.
C18_Endianness ==
  acc.op \in {"setUInt16", "setUInt24", "setUInt32"} =>
    LET other == IF acc.args.order = "be" THEN "le" ELSE "be"
        inBuffer == IF acc.args.order = "be" THEN UIntBytes ELSE Reversed(UIntBytes)
    IN /\ \A k \in 1..UIntWidth : data[acc.args.offset + k] = inBuffer[k]
       /\ UIntReadBack(acc.args.order) = UIntOfBytes(UIntBytes)
       /\ acc.op # "setUInt24" => UIntReadBack(acc.args.order) = acc.args.value
       /\ UIntReadBack(other) = UIntOfBytes(Reversed(UIntBytes))
       /\ OutsideBytesUnchanged(acc.args.offset, UIntWidth)

\* setUInt32_be(o, 0x0102a1b2) on a little-endian machine: getUInt32_le
\* gives 0xb2a10201
C18_Witness ==
  /\ acc.op = "setUInt32" /\ acc.args.order = "be" /\ host = "little"
  /\ acc.args.value = U(258, 41394)
  /\ getUInt32_be(data, acc.args.offset, host) = U(258, 41394)
  /\ getUInt32_le(data, acc.args.offset, host) = U(45729, 513)
  /\ data[acc.args.offset + 1] = 1

\* the first n elements of a text, the whole text if it is shorter
Prefix(txt, n) == IF Len(txt) <= n THEN txt ELSE SubSeq(txt, 1, n)

\* the elements of a text before the first one that satisfies Stop
UpToFirst(txt, Stop(_)) ==
  LET stops == {k \in 1..Len(txt) : Stop(txt[k])}
  IN IF stops = {} THEN txt
     ELSE SubSeq(txt, 1, (CHOOSE k \in stops : \A m \in stops : k <= m) - 1)

\* writeASCII has written the maxlen bytes at offset: the characters of the
\* text as bytes (0 for one above 0xff), then the terminator; no other byte
ASCIIFieldWritten ==
  /\ \A i \in 0..(acc.args.maxlen - 1) :
       data[acc.args.offset + i + 1] =
         IF i < Len(acc.args.txt)
         THEN (IF acc.args.txt[i + 1] > 255 THEN 0 ELSE acc.args.txt[i + 1])
         ELSE acc.args.eos
  /\ OutsideBytesUnchanged(acc.args.offset, acc.args.maxlen)

\* C19 as stated: for every text s, capacity maxLen and terminator, after
\* writeASCII readASCII returns s if |s| <= maxLen and the first maxLen
\* characters of s if it is longer, and writeASCII writes exactly the
\* maxLen bytes at o, the positions past the text with the terminator.
C19_ASCIIRoundTrip ==
  acc.op = "writeASCII" =>
    /\ readASCII(data, acc.args.offset, acc.args.maxlen, acc.args.eos)
         = Prefix(acc.args.txt, acc.args.maxlen)
    /\ ASCIIFieldWritten

\* C19, amended: this holds for the texts whose first maxLen characters are
\* Latin-1 characters (code 1..255) other than the terminator; in general
\* readASCII returns the first maxLen characters of s up to the first that
\* is NUL, the terminator or above 0xff.  writeASCII always writes exactly
\* the maxLen bytes at o.
C19_ASCIIRoundTripLatin1 ==
  acc.op = "writeASCII" =>
    LET t == Prefix(acc.args.txt, acc.args.maxlen)
        Stop(c) == c = 0 \/ c = acc.args.eos \/ c > 255
        read == readASCII(data, acc.args.offset, acc.args.maxlen, acc.args.eos)
    IN /\ (\A k \in 1..Len(t) : ~Stop(t[k])) => read = t
       /\ read = UpToFirst(t, Stop)
       /\ ASCIIFieldWritten

\* writeASCII(o, "AB", 3, 0xff) over zeros reads back as "AB", the third
\* byte holds the terminator
C19_Witness ==
  /\ acc.op = "writeASCII"
  /\ acc.args.txt = <<65, 66>> /\ acc.args.maxlen = 3 /\ acc.args.eos = 255
  /\ acc.before[acc.args.offset + 3] = 0
  /\ data[acc.args.offset + 3] = 255
  /\ readASCII(data, acc.args.offset, acc.args.maxlen, acc.args.eos) = <<65, 66>>

\* the n 16-bit code units that lie at offset in the buffer
UnitsAt(offset, n) == [i \in 1..n |-> Load16(data, offset + 2 * (i - 1), host)]

\* C20 as stated: readUnicode returns the code units up to the first
\* terminator, the first zero code unit, or maxLength units, whichever comes
\* first (in a buffer no setter has written to, and after writeUnicode);
\* writeUnicode writes the maxLength units at o: the text, cut to maxLength,
\* then the terminator, and no other byte.
C20_UnicodeContract ==
  /\ acc = NoCall =>
       \A maxlen \in 0..(BufLen \div 2), eos \in {0, 65535} :
         LET Stop(c) == c = eos \/ c = 0
         IN readUnicode(data, 0, maxlen, eos, host) = UpToFirst(UnitsAt(0, maxlen), Stop)
  /\ acc.op = "writeUnicode" =>
       LET Stop(c) == c = acc.args.eos \/ c = 0
       IN /\ readUnicode(data, acc.args.offset, acc.args.maxlen, acc.args.eos, host)
               = UpToFirst(UnitsAt(acc.args.offset, acc.args.maxlen), Stop)
          /\ \A i \in 1..acc.args.maxlen :
               UnitsAt(acc.args.offset, acc.args.maxlen)[i] =
                 IF i <= Len(acc.args.txt) THEN acc.args.txt[i] ELSE acc.args.eos
          /\ OutsideBytesUnchanged(acc.args.offset, 2 * acc.args.maxlen)


-----------------------------------------------------------------------------
(* HIDevice::hid_send_recv, the input callback and close                   *)
(* (src/lib/hid_macos.cc).  The run loop calls the input callback only      *)
(* while hid_send_recv runs it (CFRunLoopRunInMode), any number of times.   *)

\* sizeof(_receive_buf): four header bytes and a payload
ReceiveBufSize == 6
\* the value of k at which the request is written again
RetryLimit == 1
\* the writes of one call that the history counter sent tells apart
MaxSent == 2
\* sizeof(buf), the report hid_send_recv writes
RequestBufSize == 42

Zeros(n) == [i \in 1..n |-> 0]

\* the payload a well-formed reply carries from offset 4 on
Payload == [i \in 1..(ReceiveBufSize - 4) |-> 16 + i]

\* a reply of full size with header bytes b0, b1, len, b3
Reply(b0, b1, len, b3) == <<b0, b1, len, b3>> \o Payload

\* the length bytes a reply may announce
LenBytes == {0, 1, ReceiveBufSize - 4, ReceiveBufSize - 3}

\* the input reports the device sends: well-formed replies, replies with one
\* wrong header byte, a reply that is one byte short, and an empty report
Reports ==
  {Reply(3, 0, len, 0) : len \in LenBytes}
    \cup {Reply(2, 0, 1, 0), Reply(3, 1, 1, 0), Reply(3, 0, 1, 1)}
    \cup {SubSeq(Reply(3, 0, 1, 0), 1, ReceiveBufSize - 1), <<>>}

\* a report longer than _receive_buf
TooLarge == Reply(3, 0, 1, 0) \o <<0>>

\* the requests of the caller: the data to send and the length of the reply
\* it expects; rdata has room for rlength bytes
RequestData == {<<>>, <<7>>}
RLengths == {0, 1, ReceiveBufSize - 4, ReceiveBufSize - 3, 256 + 1}
CallerBuffer(n) == [i \in 1..n |-> 170]

\* what a read past the end of _receive_buf may find
StrayBytes == {0, 255}

\* buf as lines 87-93 fill it
RequestReport(d) ==
  LET nbytes == Len(d)
  IN <<1, 0, nbytes % 256, (nbytes \div 256) % 256>> \o d
       \o Zeros(RequestBufSize - 4 - nbytes)

\* no call of hid_send_recv is running.  Beside the position and the locals
\* the frame keeps the history of the call: wire, the last report written to
\* the device, sent, the number of writes, polls, the polls begun since the
\* last write, got, the last report the callback stored, stored, whether it
\* stored a report with nbytes > 0, and writeFailed
IdleFrame ==
  [pc |-> "idle", data |-> <<>>, rlength |-> 0, rdata |-> <<>>, buf |-> <<>>,
   k |-> 0, wire |-> <<>>, sent |-> 0, polls |-> 0, got |-> <<>>,
   stored |-> FALSE, writeFailed |-> FALSE, ret |-> FALSE]

\* a device as the constructor or an earlier call left it
HidInit ==
  /\ tables = Context.tables
  /\ lastOp = Op("Context", TRUE)
  /\ image = NoImage
  /\ phase = "NoSession"
  /\ chanNext = 0
  /\ scanNext = 0
  /\ linked = {}
  /\ refs = EmptyHash
  /\ config = NoConfig
  /\ data = <<>>
  /\ host = "little"
  /\ acc = NoCall
  /\ \E dev \in {"open", "null"}, r \in {Zeros(ReceiveBufSize), Reply(3, 0, 1, 0)},
        n \in {0, ReceiveBufSize} :
       hid = [dev |-> dev, nbytes_received |-> n, receive_buf |-> r]
  /\ frame = IdleFrame
  /\ list = NoWrapper
  /\ wcall = NoCall

\* HIDevice::close
close(h) == IF h.dev = "null" THEN h ELSE [h EXCEPT !.dev = "null"]

\* the first n bytes of buf replaced by the report (memcpy of line 162)
Overlay(buf, report) ==
  [i \in 1..Len(buf) |-> IF i <= Len(report) THEN report[i] ELSE buf[i]]

\* HIDevice::callback_input, called by a running run loop
callback_input(success, report) ==
  /\ frame.pc \in {"run108", "run111"}
  /\ IF ~success
       THEN hid' = close(hid) /\ frame' = frame
       ELSE IF Len(report) > ReceiveBufSize
         THEN hid' = close(hid) /\ frame' = frame
         ELSE /\ hid' = [hid EXCEPT !.nbytes_received = Len(report),
                                    !.receive_buf = Overlay(@, report)]
              /\ frame' = [frame EXCEPT !.got = report,
                                         !.stored = @ \/ Len(report) > 0]

\* lines 83-97: the request is built, the receive state is cleared
Enter(d, rlength) ==
  /\ frame.pc = "idle"
  /\ frame' = [IdleFrame EXCEPT !.pc = "again", !.data = d, !.rlength = rlength,
                                !.rdata = CallerBuffer(rlength),
                                !.buf = RequestReport(d)]
  /\ hid' = [hid EXCEPT !.nbytes_received = 0,
                        !.receive_buf = Zeros(ReceiveBufSize)]

\* lines 98-105: the request is written; the write of an open device succeeds
\* or fails, the write on _dev == nullptr fails or ends the program
Write ==
  /\ frame.pc = "again"
  /\ hid' = hid
  /\ \E outcome \in IF hid.dev = "null" THEN {"error", "crash"}
                                         ELSE {"success", "error"} :
       CASE outcome = "success" ->
              frame' = [frame EXCEPT !.pc = "run108", !.wire = frame.buf,
                                     !.sent = IF @ < MaxSent THEN @ + 1 ELSE @,
                                     !.polls = 0]
         [] outcome = "error" ->
              frame' = [frame EXCEPT !.pc = "returned", !.writeFailed = TRUE,
                                     !.ret = FALSE]
         [] outcome = "crash" ->
              frame' = [frame EXCEPT !.pc = "crashed"]

\* line 108 returns, the for loop starts with k = 0
EndFirstRun ==
  /\ frame.pc = "run108"
  /\ frame' = [frame EXCEPT !.pc = "for", !.k = 0]
  /\ hid' = hid

\* line 109: the loop condition; lines 110-111: a poll begins
ForTest ==
  /\ frame.pc = "for"
  /\ hid' = hid
  /\ IF hid.nbytes_received <= 0
       THEN frame' = [frame EXCEPT !.pc = "run111", !.polls = @ + 1]
       ELSE frame' = [frame EXCEPT !.pc = "check"]

\* EndPoll with the request written again only when k has passed the limit
EndPoll_StrictLimit ==
  /\ frame.pc = "run111"
  /\ hid' = hid
  /\ IF frame.k > RetryLimit
       THEN frame' = [frame EXCEPT !.pc = "again"]
       ELSE frame' = [frame EXCEPT !.pc = "for", !.k = @ + 1]

\* line 111 returns; lines 112-114 and the k++ of line 109
EndPoll ==
  /\ frame.pc = "run111"
  /\ hid' = hid
  /\ IF frame.k >= RetryLimit
       THEN frame' = [frame EXCEPT !.pc = "again"]
       ELSE frame' = [frame EXCEPT !.pc = "for", !.k = @ + 1]

\* rdata after memcpy(rdata, _receive_buf+4, rlength): a byte read past the
\* end of _receive_buf is any byte
Copied(buf, rlength) ==
  {r \in [1..rlength -> {buf[i] : i \in 5..Len(buf)} \cup StrayBytes] :
     \A i \in 1..rlength : 4 + i <= Len(buf) => r[i] = buf[4 + i]}

\* lines 117-132: the reply is checked and its payload copied
CheckReply ==
  /\ frame.pc = "check"
  /\ hid' = hid
  /\ IF hid.nbytes_received # ReceiveBufSize
       THEN frame' = [frame EXCEPT !.pc = "returned", !.ret = FALSE]
       ELSE IF hid.receive_buf[1] # 3 \/ hid.receive_buf[2] # 0 \/ hid.receive_buf[4] # 0
         THEN frame' = [frame EXCEPT !.pc = "returned", !.ret = FALSE]
         ELSE IF hid.receive_buf[3] # frame.rlength
           THEN frame' = [frame EXCEPT !.pc = "returned", !.ret = FALSE]
           ELSE \E r \in Copied(hid.receive_buf, frame.rlength) :
                  frame' = [frame EXCEPT !.pc = "returned", !.ret = TRUE, !.rdata = r]

hid_send_recv ==
  \/ \E d \in RequestData, rlength \in RLengths : Enter(d, rlength)
  \/ Write
  \/ EndFirstRun
  \/ ForTest
  \/ EndPoll
  \/ CheckReply

HidNext ==
  \/ hid_send_recv /\ UNCHANGED <<ctxVars, decVars, encVars, elemVars, wrapVars>>
  \/ \E report \in Reports \cup {TooLarge} :
       callback_input(TRUE, report) /\ UNCHANGED <<ctxVars, decVars, encVars, elemVars, wrapVars>>
  \/ callback_input(FALSE, <<>>) /\ UNCHANGED <<ctxVars, decVars, encVars, elemVars, wrapVars>>

HidSpec == HidInit /\ [][HidNext]_vars

\* The thread that called hid_send_recv keeps running: a run of the run loop
\* with a timeout of 0 s returns, usleep returns.  Nothing is assumed of the
\* device.
HidFairSpec ==
  HidSpec /\ WF_vars(hid_send_recv /\ UNCHANGED <<ctxVars, decVars, encVars, elemVars, wrapVars>>)


\* hid_send_recv has returned
Returned == frame.pc = "returned"

\* the report the callback stored last has the full size, the header 3, 0, 0
\* in bytes 0, 1 and 3 and the expected length in byte 2
GoodReplyStored ==
  /\ Len(frame.got) = ReceiveBufSize
  /\ frame.got[1] = 3 /\ frame.got[2] = 0 /\ frame.got[4] = 0
  /\ frame.got[3] = frame.rlength

\* C28 as stated: hid_send_recv returns true only if the write of the request
\* succeeded and the callback then stored a report of the full receive-buffer
\* size with bytes 0, 1, 3 equal to 3, 0, 0 and byte 2 equal to rlength, and
\* then rdata holds exactly the rlength bytes of that reply from offset 4 on;
\* on every other return (write error, short read, wrong header, wrong
\* length) it returns false and rdata is as the caller passed it.
C28_SendRecvContract ==
  Returned =>
    /\ frame.ret <=> (~frame.writeFailed /\ frame.sent >= 1 /\ GoodReplyStored)
    /\ frame.ret =>
         /\ Len(frame.rdata) = frame.rlength
         /\ \A i \in 1..frame.rlength :
              /\ 4 + i <= Len(frame.got)
              /\ frame.rdata[i] = frame.got[4 + i]
    /\ ~frame.ret => frame.rdata = CallerBuffer(frame.rlength)

\* the same for the calls whose rlength fits the payload of a reply
C28_WithinPayload ==
  (Returned /\ frame.rlength <= ReceiveBufSize - 4) =>
    /\ frame.ret <=> (~frame.writeFailed /\ frame.sent >= 1 /\ GoodReplyStored)
    /\ frame.ret =>
         frame.rdata = SubSeq(frame.got, 5, 4 + frame.rlength)
    /\ ~frame.ret => frame.rdata = CallerBuffer(frame.rlength)

\* a call that returned true with an rlength larger than the payload
C28_OverRead ==
  /\ Returned /\ frame.ret
  /\ frame.rlength > ReceiveBufSize - 4


\* hid_send_recv waits for a reply
Waiting == frame.pc \in {"run108", "for", "run111"}

\* A step of a call that writes the request again after n polls: every write
\* sends the request as built at the start of the call; the request is written
\* again when, and only when, n polls were begun since the last write, each
\* with no report stored, however many writes went before; an input error or
\* a too large report closes the device and leaves the call waiting.
WaitStep(n) ==
  /\ (frame.pc = "again" /\ frame'.pc = "run108") =>
       /\ frame'.wire = RequestReport(frame.data)
       /\ (frame.sent >= 1 => frame'.wire = frame.wire)
  /\ (frame.pc = "run111" /\ frame'.pc = "again") => frame.polls = n
  /\ (frame.pc = "run111" /\ frame'.pc = "for") => frame.polls < n
  /\ (frame.pc = "for" /\ frame'.pc = "run111") => hid.nbytes_received <= 0
  /\ hid'.dev # hid.dev =>
       /\ hid'.dev = "null"
       /\ Waiting /\ frame' = frame
       /\ hid'.nbytes_received = hid.nbytes_received

\* hid_send_recv returns only after a write failed or the callback stored a
\* report with nbytes > 0 since the call began
ReturnsOnlyAfterReplyOrError == Returned => (frame.writeFailed \/ frame.stored)

\* C29, with the number of polls the code makes: hid_send_recv returns only
\* after a write failed or the callback stored a report with nbytes > 0 since
\* the call began; while neither happens it writes the identical request
\* again after every RetryLimit + 1 polls (k = 0..RetryLimit), without a bound
\* on the number of writes: a waiting call goes on to the next write or to the
\* check of a reply, and a call about to write does write; an input error
\* that closes the device does not end the wait.
C29_WaitsForReplyOrWriteError ==
  /\ []ReturnsOnlyAfterReplyOrError
  /\ [](frame.polls <= RetryLimit + 1)
  /\ [][WaitStep(RetryLimit + 1)]_vars
  /\ Waiting ~> (frame.pc \in {"again", "check"})
  /\ (frame.pc = "again") ~> (frame.pc \in {"run108", "returned", "crashed"})

\* C29 as stated: the same with the request written again after every
\* RetryLimit polls
C29_RewriteAfterLimitPolls ==
  /\ []ReturnsOnlyAfterReplyOrError
  /\ [](frame.polls <= RetryLimit)
  /\ [][WaitStep(RetryLimit)]_vars
  /\ Waiting ~> (frame.pc \in {"again", "check"})
  /\ (frame.pc = "again") ~> (frame.pc \in {"run108", "returned", "crashed"})

\* an input error closed the device, no report was stored, and the call is
\* about to write the request once more after RetryLimit + 1 polls
C29_Witness ==
  /\ frame.pc = "again"
  /\ frame.sent = MaxSent
  /\ frame.polls = RetryLimit + 1
  /\ hid.dev = "null"
  /\ ~frame.stored /\ ~frame.writeFailed


-----------------------------------------------------------------------------
(* GenericListWrapper and GenericTableWrapper (src/src/configitemwrapper.cc): *)
(* rowCount, moveUp(row), moveDown(row) and onListDeleted, which are the same *)
(* code in both classes.  The wrapped AbstractConfigObjectList is not part    *)
(* of the sources: its moveUp and moveDown exchange the row with its          *)
(* neighbour when both rows exist, and do nothing otherwise.                  *)

\* the longest list a wrapper is made for
MaxRows == 3
\* the largest int
IntMax == 2147483647

WrapperClasses == {"GenericListWrapper", "GenericTableWrapper"}

\* _list == nullptr
NullList == [null |-> TRUE, items |-> <<>>]
\* _list points to a list of n items
ListOf(n) == [null |-> FALSE, items |-> [i \in 1..n |-> i]]

\* the rows a caller passes
Rows == (-1)..(MaxRows + 1) \cup {IntMax}

\* AbstractConfigObjectList::count
count(l) == Len(l.items)

\* the items with rows i and j (counted from 0) exchanged
Exchanged(items, i, j) ==
  [n \in 1..Len(items) |->
     IF n = i + 1 THEN items[j + 1] ELSE IF n = j + 1 THEN items[i + 1] ELSE items[n]]

\* AbstractConfigObjectList::moveUp(row) and moveDown(row)
ListMoveUp(l, row) ==
  IF row <= 0 \/ row >= count(l) THEN l
  ELSE [l EXCEPT !.items = Exchanged(@, row, row - 1)]
ListMoveDown(l, row) ==
  IF row < 0 \/ row >= count(l) - 1 THEN l
  ELSE [l EXCEPT !.items = Exchanged(@, row, row + 1)]

\* rowCount()
rowCount(l) == IF l.null THEN 0 ELSE count(l)

\* a call on a wrapper of a class: what it was, the list before it, how it
\* ended, what it returned and how often it emitted modified()
WCall(class, op, row, before, outcome, ret, modified) ==
  [class |-> class, op |-> op, row |-> row, before |-> before,
   outcome |-> outcome, ret |-> ret, modified |-> modified]

\* the wrapper can be called: it was made and no call has ended the program
WrapperAlive == wcall.outcome = "returned"

WrapperInit ==
  /\ tables = Context.tables
  /\ lastOp = Op("Context", TRUE)
  /\ image = NoImage
  /\ phase = "NoSession"
  /\ chanNext = 0
  /\ scanNext = 0
  /\ linked = {}
  /\ refs = EmptyHash
  /\ config = NoConfig
  /\ data = <<>>
  /\ host = "little"
  /\ acc = NoCall
  /\ hid = NoDevice
  /\ frame = NoFrame
  /\ list \in {NullList} \cup {ListOf(n) : n \in 0..MaxRows}
  /\ \E class \in WrapperClasses :
       wcall = WCall(class, "constructed", 0, list, "returned", FALSE, 0)

\* what the test of moveUp, (0>=row) || (row>=_list->count()), comes to:
\* "reject", "move", or "crash" where it reads through a null _list; a read
\* through a null pointer may also go unnoticed and give any count
TestOfMoveUp(l, row) ==
  IF 0 >= row THEN {"reject"}
  ELSE IF l.null THEN {"crash", "reject", "move"}
  ELSE IF row >= count(l) THEN {"reject"} ELSE {"move"}

\* what the test of moveDown, (0>row) || ((row+1)>=_list->count()), comes to;
\* row+1 overflows for the largest int, and then the test may go either way
TestOfMoveDown(l, row) ==
  IF 0 > row THEN {"reject"}
  ELSE IF l.null THEN {"crash", "reject", "move"}
  ELSE IF row = IntMax THEN {"reject", "move"}
  ELSE IF row + 1 >= count(l) THEN {"reject"} ELSE {"move"}

\* the call after its test: a rejected call returns false; a call that moves
\* calls the list, emits modified() and returns true; a call on a null _list
\* that got past the test ends the program at _list->moveUp
FinishMove(op, row, test, moved) ==
  CASE test = "reject" ->
         /\ list' = list
         /\ wcall' = WCall(wcall.class, op, row, list, "returned", FALSE, 0)
    [] test = "move" /\ ~list.null ->
         /\ list' = moved
         /\ wcall' = WCall(wcall.class, op, row, list, "returned", TRUE, 1)
    [] OTHER ->
         /\ list' = list
         /\ wcall' = WCall(wcall.class, op, row, list, "crashed", FALSE, 0)

\* GenericListWrapper::moveUp(int row), GenericTableWrapper::moveUp(int row)
moveUp(row) ==
  /\ WrapperAlive
  /\ \E test \in TestOfMoveUp(list, row) :
       FinishMove("moveUp", row, test, ListMoveUp(list, row))

\* GenericListWrapper::moveDown(int row), GenericTableWrapper::moveDown(int row)
moveDown(row) ==
  /\ WrapperAlive
  /\ \E test \in TestOfMoveDown(list, row) :
       FinishMove("moveDown", row, test, ListMoveDown(list, row))

\* the wrapped list is destroyed
onListDeleted ==
  /\ WrapperAlive
  /\ ~list.null
  /\ list' = NullList
  /\ wcall' = WCall(wcall.class, "onListDeleted", 0, list, "returned", FALSE, 0)

WrapperNext ==
  \/ \E row \in Rows : moveUp(row) /\ UNCHANGED <<ctxVars, decVars, encVars, elemVars, hidVars>>
  \/ \E row \in Rows : moveDown(row) /\ UNCHANGED <<ctxVars, decVars, encVars, elemVars, hidVars>>
  \/ onListDeleted /\ UNCHANGED <<ctxVars, decVars, encVars, elemVars, hidVars>>

WrapperSpec == WrapperInit /\ [][WrapperNext]_vars

\* a move call has returned
MoveReturned(op) == wcall.op = op /\ wcall.outcome = "returned"

\* the call returned false, left the list as it was and emitted nothing
Rejected == ~wcall.ret /\ list = wcall.before /\ wcall.modified = 0

\* the call returned true, emitted modified() once and exchanged the row
\* with the row at distance d
Moved(d) ==
  /\ wcall.ret /\ wcall.modified = 1
  /\ ~list.null
  /\ list.items = Exchanged(wcall.before.items, wcall.row, wcall.row + d)

\* C30 as stated: moveUp(row) returns false, leaves the order of the list and
\* emits no modified() when row <= 0 or row >= count, and otherwise moves that
\* row up by one, emits modified() once and returns true; moveDown(row) does
\* the same with the rejection row < 0 or row + 1 >= count; once the list is
\* destroyed rowCount() is 0, and so is the count the moves go by.
C30_MoveContract ==
  /\ wcall.op = "moveUp" =>
       /\ wcall.outcome = "returned"
       /\ IF wcall.row <= 0 \/ wcall.row >= rowCount(wcall.before)
            THEN Rejected ELSE Moved(-1)
  /\ wcall.op = "moveDown" =>
       /\ wcall.outcome = "returned"
       /\ IF wcall.row < 0 \/ wcall.row >= rowCount(wcall.before) - 1
            THEN Rejected ELSE Moved(1)
  /\ list.null => rowCount(list) = 0
  /\ wcall.op = "onListDeleted" => list.null

\* the same for the calls made while the list lives, with a row below the
\* largest int
C30_LiveList ==
  /\ (wcall.op = "moveUp" /\ ~wcall.before.null) =>
       /\ wcall.outcome = "returned"
       /\ IF wcall.row <= 0 \/ wcall.row >= rowCount(wcall.before)
            THEN Rejected ELSE Moved(-1)
  /\ (wcall.op = "moveDown" /\ ~wcall.before.null /\ wcall.row < IntMax) =>
       /\ wcall.outcome = "returned"
       /\ IF wcall.row < 0 \/ wcall.row >= rowCount(wcall.before) - 1
            THEN Rejected ELSE Moved(1)
  /\ list.null => rowCount(list) = 0
  /\ wcall.op = "onListDeleted" => list.null

=============================================================================
